---- MODULE Spec2Model ----
(***************************************************************************)
(* Model of the ONC RPC / NFSv3 client in lib/hpccache/nfs3py:             *)
(*   rpc_rfc1057.py  _RawTCPClient (XID counter, make_call,                *)
(*                   _make_call_internal, reconnect)                       *)
(*   nfs3_util.py    NFS3_Client.make_call (JUKEBOX retry)                 *)
(*                                                                         *)
(* Time is counted in milliseconds.  A reply record is a sequence of       *)
(* 32-bit XDR words; stream positions are byte offsets.                    *)
(***************************************************************************)
EXTENDS Integers, Sequences, FiniteSets, TLC

\* ------------------------------------------------------------------ bounds
MaxXid == 3
NumThreads == 2
MaxLog == 3

\* ------------------------------------------------------------- python None
None == -1

\* ------------------------------------------------------------ class tree
\* The client classes of rpc_rfc1057.py, nfs3.py and nfs3_util.py.
Classes ==
    {"_RawTCPClient", "TCPPortMapperClient", "TCPClient",
     "nfs3.MOUNT3_Client", "nfs3.NFS3_Client",
     "nfs3_util.MOUNT3_Client", "nfs3_util.NFS3_Client"}

\* Base class of each client class (single inheritance).
Base(c) ==
    CASE c = "TCPPortMapperClient" -> "_RawTCPClient"
      [] c = "TCPClient" -> "_RawTCPClient"
      [] c = "nfs3.MOUNT3_Client" -> "TCPClient"
      [] c = "nfs3.NFS3_Client" -> "TCPClient"
      [] c = "nfs3_util.MOUNT3_Client" -> "nfs3.MOUNT3_Client"
      [] c = "nfs3_util.NFS3_Client" -> "nfs3.NFS3_Client"
      [] OTHER -> "object"

\* Classes whose instances allocate XIDs in the model: a portmapper client
\* (TCPClient.__init__ creates one), a raw NFS3 client and its nfs3_util
\* subclass.  The MOUNT3 clients behave like the NFS3 ones.
ClientClasses ==
    {"TCPPortMapperClient", "nfs3.NFS3_Client", "nfs3_util.NFS3_Client"}

Threads == 1..NumThreads

VARIABLES
    _lastxid,       \* class -> value of the class attribute _lastxid set ON that class, or None
    _lastxid_lock,  \* thread holding _RawTCPClient._lastxid_lock, or None
    tpc,            \* thread -> position inside get_new_xid / xid_used
    tcls,           \* thread -> class of the client the thread is calling through
    targ,           \* thread -> argument of xid_used
    tval,           \* thread -> value read inside the critical section
    xidLog          \* values returned by get_new_xid, in the order of return

xidVars == <<_lastxid, _lastxid_lock, tpc, tcls, targ, tval, xidLog>>

\* Python attribute lookup cls._lastxid: the first class along the MRO that
\* has the attribute in its own __dict__.
RECURSIVE ClassAttr(_, _)
ClassAttr(lx, c) ==
    IF c = "object" THEN None
    ELSE IF lx[c] # None THEN lx[c]
    ELSE ClassAttr(lx, Base(c))

\* Python attribute store cls._lastxid = v: always into cls's own __dict__.
ClassAttrSet(lx, c, v) == [lx EXCEPT ![c] = v]

Max(a, b) == IF a >= b THEN a ELSE b

\* get_new_xid, the body under the lock: cls._lastxid += 1; return cls._lastxid
get_new_xid_value(lx, c) == ClassAttr(lx, c) + 1
get_new_xid_state(lx, c) == ClassAttrSet(lx, c, ClassAttr(lx, c) + 1)

\* xid_used, the body under the lock: cls._lastxid = max(cls._lastxid, xid)
xid_used_state(lx, c, xid) == ClassAttrSet(lx, c, Max(ClassAttr(lx, c), xid))

lastxid_Init == [c \in Classes |-> IF c = "_RawTCPClient" THEN 0 ELSE None]

\* A thread calls self.get_new_xid() on a client of class c.
GetNewXidCall(t, c) ==
    /\ tpc[t] = "idle"
    /\ tpc' = [tpc EXCEPT ![t] = "new_wait"]
    /\ tcls' = [tcls EXCEPT ![t] = c]
    /\ UNCHANGED <<_lastxid, _lastxid_lock, targ, tval, xidLog>>

\* A thread calls self.xid_used(xid) on a client of class c (from _start_call).
XidUsedCall(t, c, xid) ==
    /\ tpc[t] = "idle"
    /\ tpc' = [tpc EXCEPT ![t] = "used_wait"]
    /\ tcls' = [tcls EXCEPT ![t] = c]
    /\ targ' = [targ EXCEPT ![t] = xid]
    /\ UNCHANGED <<_lastxid, _lastxid_lock, tval, xidLog>>

\* with cls._lastxid_lock: (the lock object is found on _RawTCPClient)
LockAcquire(t) ==
    /\ tpc[t] \in {"new_wait", "used_wait"}
    /\ _lastxid_lock = None
    /\ _lastxid_lock' = t
    /\ tpc' = [tpc EXCEPT ![t] = IF tpc[t] = "new_wait" THEN "new_locked" ELSE "used_locked"]
    /\ UNCHANGED <<_lastxid, tcls, targ, tval, xidLog>>

\* cls._lastxid += 1
XidIncrement(t) ==
    /\ tpc[t] = "new_locked"
    /\ ClassAttr(_lastxid, tcls[t]) < MaxXid
    /\ _lastxid' = get_new_xid_state(_lastxid, tcls[t])
    /\ tval' = [tval EXCEPT ![t] = get_new_xid_value(_lastxid, tcls[t])]
    /\ tpc' = [tpc EXCEPT ![t] = "new_return"]
    /\ UNCHANGED <<_lastxid_lock, tcls, targ, xidLog>>

\* return cls._lastxid  (and leave the with block)
XidReturn(t) ==
    /\ tpc[t] = "new_return"
    /\ Len(xidLog) < MaxLog
    /\ xidLog' = Append(xidLog, ClassAttr(_lastxid, tcls[t]))
    /\ _lastxid_lock' = None
    /\ tpc' = [tpc EXCEPT ![t] = "idle"]
    /\ tval' = [tval EXCEPT ![t] = 0]
    /\ UNCHANGED <<_lastxid, tcls, targ>>

\* cls._lastxid = max(cls._lastxid, xid)  (and leave the with block)
XidUsedStore(t) ==
    /\ tpc[t] = "used_locked"
    /\ _lastxid' = xid_used_state(_lastxid, tcls[t], targ[t])
    /\ _lastxid_lock' = None
    /\ tpc' = [tpc EXCEPT ![t] = "idle"]
    /\ targ' = [targ EXCEPT ![t] = 0]
    /\ UNCHANGED <<tcls, tval, xidLog>>

\* -------------------------------------------------------------------- wire
\* Protocol constants (rpc_rfc1057.py, nfs3.py).
CALL == 0
REPLY == 1
MSG_ACCEPTED == 0
MSG_DENIED == 1
SUCCESS == 0
RPC_MISMATCH == 0
AUTH_ERROR == 1
NFS3_OK == 0
NFS3ERR_JUKEBOX == 10008
NFS3ERR_NOENT == 2
NFS3ERR_ACCES == 13
NFS3ERR_ISDIR == 21
NFS3ERR_NOTEMPTY == 66
fattr3_RSZ == 84

\* Sizes (nfs3.py).  NFS3_CREATEVERFSIZE and NFS3_WRITEVERFSIZE have the value
\* of NFS3_COOKIEVERFSIZE.
FHSIZE3 == 64
NFS3_FHSIZE == 64
MNTPATHLEN == 1024
NFS3_COOKIEVERFSIZE == 8

\* Status values.  A status is either a string or an annotated_enum instance
\* of some enum class; both are written as records of one shape so that they
\* can be compared.  Formatted strings keep their fixed text, and the name of
\* the exception they were formatted from in arg.
StatusStr(s) == [type |-> "str", val |-> 0, text |-> s, arg |-> ""]
StatusStrArg(s, a) == [type |-> "str", val |-> 0, text |-> s, arg |-> a]
StatusEnum(cls, v) == [type |-> cls, val |-> v, text |-> "", arg |-> ""]

accept_stat(v) == StatusEnum("accept_stat", v)
reject_stat(v) == StatusEnum("reject_stat", v)
Auth_stat(v) == StatusEnum("Auth_stat", v)
nfsstat3(v) == StatusEnum("nfsstat3", v)

\* Result objects: the class, the xid attribute, the status and the decoded
\* fields of the body in decoding order.
NoRes == [cls |-> "None", xid |-> None, status |-> StatusStr(""), body |-> <<>>]
ONCRPCres(cls, xid, status, body) == [cls |-> cls, xid |-> xid, status |-> status, body |-> body]
ONCRPCresfail(xid, status) == ONCRPCres("ONCRPCresfail", xid, status, <<>>)
ONCRPCresfailTimeout(xid) == ONCRPCres("ONCRPCresfailTimeout", xid, StatusStr("RPCTimeout"), <<>>)

\* isinstance(res, ONCRPCresfail)
IsResFail(res) == res.cls \in {"ONCRPCresfail", "ONCRPCresfailTimeout"}

\* ------------------------------------------------------------- streams
\* ONCRPCwire.read_exact for one 4-byte item at byte offset pos of a stream of
\* words: ok is FALSE for a short read (ShortRead is raised); the position
\* moves to the end of the stream in that case, as stream.read() does.
StreamLen(stream) == 4 * Len(stream)
ReadWord(stream, pos) ==
    IF pos + 4 <= StreamLen(stream)
    THEN [ok |-> TRUE, val |-> stream[(pos \div 4) + 1], pos |-> pos + 4]
    ELSE [ok |-> FALSE, val |-> 0, pos |-> Max(pos, StreamLen(stream))]

\* read_exact(stream, n) where the bytes themselves are not looked at.
ReadSkip(stream, pos, n) ==
    IF pos + n <= StreamLen(stream)
    THEN [ok |-> TRUE, val |-> 0, pos |-> pos + n]
    ELSE [ok |-> FALSE, val |-> 0, pos |-> Max(pos, StreamLen(stream))]

\* Outcome of (a part of) one attempt: a returned result or a raised
\* exception, whether the code set need_reconnect, the final stream position
\* and whether res_class.read() was entered.
Returned(res, nr, pos, dec) ==
    [kind |-> "return", res |-> res, exc |-> "", need_reconnect |-> nr, pos |-> pos, decoded |-> dec]
Raised(exc, nr, pos, dec) ==
    [kind |-> "raise", res |-> NoRes, exc |-> exc, need_reconnect |-> nr, pos |-> pos, decoded |-> dec]

\* post_op_attr.read: bool attributes_follow, then fattr3 when it is set.
\* Yields the decoded fields, or ok = FALSE on ShortRead.
post_op_attr_read(stream, pos) ==
    LET f == ReadWord(stream, pos) IN
    IF ~f.ok THEN [ok |-> FALSE, fields |-> <<>>, pos |-> f.pos]
    ELSE IF f.val # 0
         THEN LET a == ReadSkip(stream, f.pos, fattr3_RSZ) IN
              [ok |-> a.ok, fields |-> <<1>>, pos |-> a.pos]
         ELSE [ok |-> TRUE, fields |-> <<0>>, pos |-> f.pos]

\* The result classes of the NFSv3 procedures (NFS3_NULLres aside) and the
\* fields read() decodes behind the status, for NFS3_OK and for another
\* status.
NfsResClasses ==
    {"GETATTR3res", "SETATTR3res", "LOOKUP3res", "ACCESS3res", "READLINK3res", "READ3res",
     "WRITE3res", "CREATE3res", "MKDIR3res", "SYMLINK3res", "MKNOD3res", "REMOVE3res",
     "RMDIR3res", "RENAME3res", "LINK3res", "READDIR3res", "READDIRPLUS3res", "FSSTAT3res",
     "FSINFO3res", "PATHCONF3res", "COMMIT3res"}

ResArms(rc) ==
    CASE rc = "GETATTR3res" -> [ok |-> <<"fattr3">>, fail |-> <<>>]
      [] rc = "LOOKUP3res" ->
            [ok |-> <<"nfs_fh3", "post_op_attr", "post_op_attr">>, fail |-> <<"post_op_attr">>]
      [] rc = "ACCESS3res" -> [ok |-> <<"post_op_attr", "uint32">>, fail |-> <<"post_op_attr">>]
      [] rc = "READLINK3res" ->
            [ok |-> <<"post_op_attr", "nfspath3">>, fail |-> <<"post_op_attr">>]
      [] rc = "READ3res" ->
            [ok |-> <<"post_op_attr", "uint32", "uint32", "read_bytes">>,
             fail |-> <<"post_op_attr">>]
      [] rc = "WRITE3res" ->
            [ok |-> <<"wcc_data", "uint32", "uint32", "writeverf3">>, fail |-> <<"wcc_data">>]
      [] rc \in {"CREATE3res", "MKDIR3res", "SYMLINK3res", "MKNOD3res"} ->
            [ok |-> <<"post_op_fh3", "post_op_attr", "wcc_data">>, fail |-> <<"wcc_data">>]
      [] rc \in {"SETATTR3res", "REMOVE3res", "RMDIR3res"} ->
            [ok |-> <<"wcc_data">>, fail |-> <<"wcc_data">>]
      [] rc = "RENAME3res" ->
            [ok |-> <<"wcc_data", "wcc_data">>, fail |-> <<"wcc_data", "wcc_data">>]
      [] rc = "LINK3res" ->
            [ok |-> <<"post_op_attr", "wcc_data">>, fail |-> <<"post_op_attr", "wcc_data">>]
      [] rc = "READDIR3res" ->
            [ok |-> <<"post_op_attr", "cookieverf3", "dirlist3">>, fail |-> <<"post_op_attr">>]
      [] rc = "READDIRPLUS3res" ->
            [ok |-> <<"post_op_attr", "cookieverf3", "dirlistplus3">>,
             fail |-> <<"post_op_attr">>]
      [] rc = "FSSTAT3res" -> [ok |-> <<"post_op_attr", "FSSTAT3">>, fail |-> <<"post_op_attr">>]
      [] rc = "FSINFO3res" -> [ok |-> <<"post_op_attr", "FSINFO3">>, fail |-> <<"post_op_attr">>]
      [] rc = "PATHCONF3res" ->
            [ok |-> <<"post_op_attr", "PATHCONF3">>, fail |-> <<"post_op_attr">>]
      [] rc = "COMMIT3res" -> [ok |-> <<"wcc_data", "writeverf3">>, fail |-> <<"wcc_data">>]

\* Fields that are read as a block of fixed size: the size in bytes (_RSZ of
\* fattr3 and of the result classes, wcc_attr, the verifiers, uint64).
BlockSize(ty) ==
    CASE ty = "fattr3" -> fattr3_RSZ
      [] ty = "wcc_attr" -> 24
      [] ty \in {"cookieverf3", "writeverf3", "uint64"} -> 8
      [] ty = "FSSTAT3" -> 52
      [] ty = "FSINFO3" -> 48
      [] ty = "PATHCONF3" -> 24

\* Fields that are a sequence of other fields, in reading order.
StructFields(ty) ==
    CASE ty = "wcc_data" -> <<"pre_op_attr", "post_op_attr">>
      [] ty = "entry3" -> <<"uint64", "filename3", "uint64">>
      [] ty = "entryplus3" -> <<"uint64", "filename3", "uint64", "post_op_attr", "post_op_fh3">>

\* T.read(stream) for the field types, on a stream of words.  Yields the
\* decoded fields (flags, lengths and word values, in decoding order), the
\* position behind them and the exception raised, if any.
\*   uint32: one word;  blocks: read_exact of the size;
\*   pre_op_attr, post_op_attr, post_op_fh3: bool, then the value when set;
\*   nfs_fh3: length word (ProtocolError above NFS3_FHSIZE), read_then_align;
\*   filename3, nfspath3: length word, read_then_align;
\*   read_bytes: the length word and the data of READ3res, not aligned;
\*   dirlist3, dirlistplus3: read_list of entries, then eof.
RECURSIVE field_read(_, _, _)
RECURSIVE fields_read(_, _, _)
RECURSIVE read_list(_, _, _, _)

\* A bug: the fields behind the status are left undecoded.
fields_read_nothing(types, stream, pos) == [exc |-> "", fields |-> <<>>, pos |-> pos]

fields_read(types, stream, pos) ==
    IF types = <<>> THEN [exc |-> "", fields |-> <<>>, pos |-> pos]
    ELSE LET f == field_read(Head(types), stream, pos) IN
         IF f.exc # "" THEN f
         ELSE LET r == fields_read(Tail(types), stream, f.pos) IN
              [r EXCEPT !.fields = f.fields \o r.fields]

read_list(item, stream, pos, n) ==
    LET nextval == ReadWord(stream, pos) IN
    IF ~nextval.ok THEN [exc |-> "ShortRead", fields |-> <<>>, pos |-> nextval.pos]
    ELSE IF nextval.val = 0 THEN [exc |-> "", fields |-> <<n>>, pos |-> nextval.pos]
    ELSE IF nextval.val # 1 THEN [exc |-> "ProtocolError", fields |-> <<>>, pos |-> nextval.pos]
    ELSE LET e == field_read(item, stream, nextval.pos) IN
         IF e.exc # "" THEN e ELSE read_list(item, stream, e.pos, n + 1)

field_read(ty, stream, pos) ==
    IF ty \in {"wcc_data", "entry3", "entryplus3"} THEN fields_read(StructFields(ty), stream, pos)
    ELSE IF ty \in {"dirlist3", "dirlistplus3"}
    THEN LET l == read_list(IF ty = "dirlist3" THEN "entry3" ELSE "entryplus3", stream, pos, 0)
         IN IF l.exc # "" THEN l
            ELSE LET eof == ReadWord(stream, l.pos) IN
                 [exc |-> IF eof.ok THEN "" ELSE "ShortRead",
                  fields |-> l.fields \o <<eof.val>>, pos |-> eof.pos]
    ELSE IF ty \in {"fattr3", "wcc_attr", "cookieverf3", "writeverf3", "uint64",
                    "FSSTAT3", "FSINFO3", "PATHCONF3"}
    THEN LET b == ReadSkip(stream, pos, BlockSize(ty)) IN
         [exc |-> IF b.ok THEN "" ELSE "ShortRead", fields |-> <<>>, pos |-> b.pos]
    ELSE IF ty = "post_op_attr"
    THEN LET a == post_op_attr_read(stream, pos) IN
         [exc |-> IF a.ok THEN "" ELSE "ShortRead", fields |-> a.fields, pos |-> a.pos]
    ELSE
    LET w == ReadWord(stream, pos) IN
    IF ~w.ok THEN [exc |-> "ShortRead", fields |-> <<>>, pos |-> w.pos]
    ELSE IF ty = "uint32" THEN [exc |-> "", fields |-> <<w.val>>, pos |-> w.pos]
    ELSE IF ty \in {"pre_op_attr", "post_op_fh3"}
    THEN IF w.val = 0 THEN [exc |-> "", fields |-> <<0>>, pos |-> w.pos]
         ELSE LET v == field_read(IF ty = "pre_op_attr" THEN "wcc_attr" ELSE "nfs_fh3",
                                  stream, w.pos)
              IN [v EXCEPT !.fields = <<1>> \o v.fields]
    ELSE IF ty = "nfs_fh3" /\ w.val > NFS3_FHSIZE
    THEN [exc |-> "ProtocolError", fields |-> <<>>, pos |-> w.pos]
    ELSE LET d == ReadSkip(stream, w.pos,
                           IF ty = "read_bytes" THEN w.val ELSE 4 * ((w.val + 3) \div 4))
         IN [exc |-> IF d.ok THEN "" ELSE "ShortRead", fields |-> <<w.val>>, pos |-> d.pos]

\* res_class.read(reply_stream):
\*   NFS3_NULLres: reads nothing, status NFS3_OK;
\*   the result classes of the NFSv3 procedures: generate_from_status (the
\*   nfsstat3), then the fields of the OK arm or of the FAIL arm.
res_class_read(res_class, stream, pos, xid) ==
    IF res_class = "NFS3_NULLres"
    THEN Returned(ONCRPCres(res_class, xid, nfsstat3(NFS3_OK), <<>>), FALSE, pos, TRUE)
    ELSE LET st == ReadWord(stream, pos) IN
         IF ~st.ok THEN Raised("ShortRead", FALSE, st.pos, TRUE)
         ELSE LET arms == ResArms(res_class)
                  b == fields_read(IF st.val = NFS3_OK THEN arms.ok ELSE arms.fail,
                                   stream, st.pos)
              IN
              IF b.exc # "" THEN Raised(b.exc, FALSE, b.pos, TRUE)
              ELSE Returned(ONCRPCres(res_class, xid, nfsstat3(st.val), b.fields),
                            FALSE, b.pos, TRUE)

\* Status of the failure returned for MSG_DENIED / AUTH_ERROR: the code builds
\* it from dstat, not from the auth-stat astat it has just read.
AuthErrorStatus(dstat, astat) == Auth_stat(dstat)

\* A bug: the low/high versions are left unread.
RpcMismatchNoSeek(pos) == pos

\* reply_stream.seek(8, io.SEEK_CUR) after the reject-stat of an RPC_MISMATCH
\* reply: the stream position afterwards.
RpcMismatchSeek(pos) == pos + 8

\* A bug: the XID of the reply is not compared.
XidMismatchNever(xid, expect_xid) == FALSE

\* The test "if xid != expect_xid" on the XID of the reply.
XidMismatch(xid, expect_xid) == xid # expect_xid

\* A bug: the message type of the reply is not looked at.
NotReplyNever(mtype) == FALSE

\* The test "if mtype != REPLY.value" on the message type of the reply.
NotReply(mtype) == mtype # REPLY

\* _make_call_internal from the point where the reply record has been
\* received: parse the header, dispatch on reply_stat, decode the result.
ReplyDispatch(reply, expect_xid, res_class) ==
    IF Len(reply) < 3 THEN Raised("struct.error", FALSE, StreamLen(reply), FALSE)
    ELSE
    LET xid == reply[1]
        mtype == reply[2]
        stat == reply[3]
    IN
    IF NotReply(mtype)
    THEN Returned(ONCRPCresfail(xid, StatusStr("mtype is not REPLY")), TRUE, 12, FALSE)
    ELSE IF XidMismatch(xid, expect_xid)
    THEN Returned(ONCRPCresfail(expect_xid, StatusStr("wrong xid in reply")), TRUE, 12, FALSE)
    ELSE IF stat = MSG_ACCEPTED
    THEN \* discard_auth: flavor and length, then seek over the body
         LET au == ReadSkip(reply, 12, 4)
             ln == ReadWord(reply, au.pos)
         IN
         IF ~ln.ok THEN Raised("ShortRead", FALSE, ln.pos, FALSE)
         ELSE LET astat == ReadWord(reply, ln.pos + ln.val) IN
              IF ~astat.ok THEN Raised("ShortRead", FALSE, astat.pos, FALSE)
              ELSE IF astat.val # SUCCESS
                   THEN Returned(ONCRPCresfail(xid, accept_stat(astat.val)), FALSE, astat.pos, FALSE)
                   ELSE res_class_read(res_class, reply, astat.pos, xid)
    ELSE IF stat = MSG_DENIED
    THEN LET dstat == ReadWord(reply, 12) IN
         IF ~dstat.ok THEN Raised("ShortRead", FALSE, dstat.pos, FALSE)
         ELSE IF dstat.val = RPC_MISMATCH
              THEN Returned(ONCRPCresfail(xid, reject_stat(dstat.val)), FALSE,
                            RpcMismatchSeek(dstat.pos), FALSE)
              ELSE IF dstat.val = AUTH_ERROR
                   THEN LET astat == ReadWord(reply, dstat.pos) IN
                        IF ~astat.ok THEN Raised("ShortRead", FALSE, astat.pos, FALSE)
                        ELSE Returned(ONCRPCresfail(xid, AuthErrorStatus(dstat.val, astat.val)),
                                      FALSE, astat.pos, FALSE)
                   ELSE Returned(ONCRPCresfail(xid,
                                    StatusStr("MSG_DENIED with unexpected dstatus in reply")),
                                 FALSE, dstat.pos, FALSE)
    ELSE Returned(ONCRPCresfail(xid, StatusStr("unexpected status in reply")), TRUE, 12, FALSE)


\* ------------------------------------------------------------ client state
\* Defaults (rpc_rfc1057.py, nfs3_util.py); times in milliseconds.
timeoutRel_default == 30000
callTries_default == 2
nfs3_callTries_default == 5
JukeboxSleep == 250

\* Largest callTries a caller passes in the model.
MaxTries == 3

\* The client of the call model is one nfs3_util.NFS3_Client; its transport
\* make_call (nfs3.NFS3_Client.make_call is _RawTCPClient.make_call) can also
\* be called directly.
SelfClass == "nfs3_util.NFS3_Client"

VARIABLES
    need_reconnect,         \* self.need_reconnect
    sock,                   \* self.sock: "None", "unconnected" or "open"
    _ever_tried_reconnect,  \* self._ever_tried_reconnect
    now,                    \* time.time(), relative to the start of the call
    connDelay,              \* how long a successful connect takes (environment)
    pc,                     \* "idle", "util", "raw", "util_after", "done", "raised"
    layer,                  \* which make_call the caller invoked: "util" or "raw"
    res_class,              \* res_class argument
    kw_timeoutRel,          \* the caller's timeoutRel argument (or None)
    kw_timeoutAbs,          \* the caller's timeoutAbs argument (or None)
    in_xid,                 \* nfs3_util make_call: in_xid
    cur_xid,                \* nfs3_util make_call: cur_xid
    next_xid,               \* nfs3_util make_call: next_xid
    try_count,              \* nfs3_util make_call: try_count
    util_callTries,         \* nfs3_util make_call: callTries
    xid,                    \* transport make_call: xid
    arg_xid,                \* transport make_call: the xid argument (or None)
    tries,                  \* transport make_call: tries
    callTries,              \* transport make_call: callTries
    logger,                 \* transport make_call: logger ("None" or "logger")
    timeoutRel,             \* transport make_call: timeoutRel after defaulting
    timeoutAbs,             \* transport make_call: timeoutAbs
    res,                    \* res: the result of the last transport make_call
    result,                 \* the result object returned to the caller
    raised,                 \* exception that left make_call, "" when none
    attempts,               \* history: xid, sent and kind of outcome of each attempt
    last,                   \* history: the last attempt in full
    server_silent,          \* history: the server has answered no attempt of the call
    start_closed,           \* history: the call began with no socket and need_reconnect unset
    reply_stream,           \* the reply record of the last attempt that got one
    latencies_success       \* self.latencies.success

clientVars == <<need_reconnect, sock, _ever_tried_reconnect, now, connDelay>>
utilVars == <<in_xid, cur_xid, next_xid, try_count, util_callTries, latencies_success>>
rawVars == <<xid, arg_xid, tries, callTries, logger, timeoutRel, timeoutAbs>>
callVars ==
    <<clientVars, utilVars, rawVars, pc, layer, res_class, kw_timeoutRel, kw_timeoutAbs,
      res, result, raised, attempts, last, server_silent, start_closed, reply_stream>>

\* LoggerState.logger_get(logger=logger): the given logger, else the module's.
logger_get(lg) == IF lg # "None" THEN lg ELSE "logger"

\* ------------------------------------------------- one attempt on the wire
\* What the network and the server do to one attempt.
EventKinds ==
    {"connect_fail", "runtime_error", "send_timeout", "send_reset",
     "recv_timeout", "recv_reset", "recv_eof", "reply"}

\* Client-side effect of _make_call_internal under event ev.  o is the
\* Returned/Raised outcome; the other fields are the client state afterwards
\* and what happened on the wire.
Attempt(o, nr, sk, ever, t, lx, sent, reconn) ==
    [o |-> o, need_reconnect |-> nr, sock |-> sk, ever |-> ever, now |-> t,
     lastxid |-> lx, sent |-> sent, reconnected |-> reconn]

\* Does _make_call_internal call self.reconnect()?
ReconnectNeeded(nr, sk) == nr

_make_call_internal(ev, expect_xid, tAbs) ==
    LET doRc == ReconnectNeeded(need_reconnect, sock) IN
    IF doRc /\ ev.kind = "connect_fail"
    THEN \* reconnect(): makesocket() done, bind/connect raises OSError
         Attempt(Raised("OSError", FALSE, 0, FALSE), need_reconnect, "unconnected", TRUE,
                 now, _lastxid, FALSE, FALSE)
    ELSE
    LET nr1 == IF doRc THEN FALSE ELSE need_reconnect
        sk1 == IF doRc THEN "open" ELSE sock
        ev1 == IF doRc THEN TRUE ELSE _ever_tried_reconnect
        t1 == IF doRc THEN now + connDelay ELSE now
        \* _start_call: self.xid_used(xid)
        lx1 == xid_used_state(_lastxid, SelfClass, expect_xid)
    IN
    IF ev.kind = "runtime_error"
    THEN Attempt(Raised("RuntimeError", FALSE, 0, FALSE), nr1, sk1, ev1, t1, lx1, FALSE, doRc)
    \* _sendrecord
    ELSE IF tAbs - t1 <= 0
    THEN Attempt(Raised("RPCTimeout", FALSE, 0, FALSE), nr1, sk1, ev1, t1, lx1, FALSE, doRc)
    ELSE IF sk1 = "None"
    THEN Attempt(Raised("AttributeError", FALSE, 0, FALSE), nr1, sk1, ev1, t1, lx1, FALSE, doRc)
    ELSE IF ev.kind = "send_timeout"
    THEN Attempt(Raised("RPCTimeout", TRUE, 0, FALSE), TRUE, sk1, ev1, tAbs, lx1, FALSE, doRc)
    ELSE IF ev.kind = "send_reset"
    THEN Attempt(Raised("ConnectionResetError", TRUE, 0, FALSE), TRUE, sk1, ev1, t1, lx1, FALSE, doRc)
    \* _recvrecord
    ELSE IF ev.kind = "recv_timeout"
    THEN Attempt(Raised("RPCTimeout", TRUE, 0, FALSE), TRUE, sk1, ev1, tAbs, lx1, TRUE, doRc)
    ELSE IF ev.kind = "recv_reset"
    THEN Attempt(Raised("ConnectionResetError", TRUE, 0, FALSE), TRUE, sk1, ev1, t1, lx1, TRUE, doRc)
    ELSE IF ev.kind = "recv_eof"
    THEN Attempt(Raised("EOFError", TRUE, 0, FALSE), TRUE, sk1, ev1, t1, lx1, TRUE, doRc)
    ELSE LET o == ReplyDispatch(ev.reply, expect_xid, res_class) IN
         Attempt(o, nr1 \/ o.need_reconnect, sk1, ev1, t1, lx1, TRUE, doRc)


\* ------------------------------------------------------------ the server
\* Reply records a server can send to a call with XID x: for each branch of
\* the reply handling at least one record, truncated records included.
fattr3_words == [i \in 1..21 |-> 0]

Replies(x) ==
    {<<x + 1, REPLY, MSG_ACCEPTED, 0, 0, SUCCESS, NFS3_OK, 0, 7>>,
     <<x + 1, CALL, MSG_ACCEPTED>>,
     <<x, CALL, MSG_ACCEPTED>>,
     <<x, REPLY, 2>>,
     <<x, REPLY>>,
     <<x, REPLY, MSG_DENIED, RPC_MISMATCH, 2, 2>>,
     <<x, REPLY, MSG_DENIED, RPC_MISMATCH, 2>>,
     <<x, REPLY, MSG_DENIED, 2>>,
     <<x, REPLY, MSG_ACCEPTED, 0, 0, 1>>,
     <<x, REPLY, MSG_ACCEPTED, 0, 0, SUCCESS>>,
     <<x, REPLY, MSG_ACCEPTED, 0, 0, SUCCESS, NFS3_OK, 0, 7>>,
     <<x, REPLY, MSG_ACCEPTED, 0, 4, 9, SUCCESS, NFS3_OK, 0, 7>>,
     <<x, REPLY, MSG_ACCEPTED, 0, 0, SUCCESS, NFS3_OK, 1>> \o fattr3_words \o <<7>>,
     <<x, REPLY, MSG_ACCEPTED, 0, 0, SUCCESS, 2, 0>>,
     <<x, REPLY, MSG_ACCEPTED, 0, 0, SUCCESS, NFS3ERR_JUKEBOX, 0>>}
    \cup {<<x, REPLY, MSG_DENIED, AUTH_ERROR, s>> : s \in 1..5}

Events(x) ==
    {[kind |-> k, reply |-> <<>>] : k \in EventKinds \ {"reply"}}
    \cup {[kind |-> "reply", reply |-> r] : r \in Replies(x)}

\* What a server puts on the wire for a field of a result, with the fields a
\* decoder is to find in it: each optional part absent and present, handles
\* and names of a few bytes, lists of no and of one entry.
RECURSIVE FieldEncodings(_)
RECURSIVE ArmEncodings(_)

ArmEncodings(types) ==
    IF types = <<>> THEN {[words |-> <<>>, fields |-> <<>>]}
    ELSE {[words |-> h.words \o t.words, fields |-> h.fields \o t.fields] :
             h \in FieldEncodings(Head(types)), t \in ArmEncodings(Tail(types))}

FieldEncodings(ty) ==
    CASE ty = "uint32" -> {[words |-> <<7>>, fields |-> <<7>>]}
      [] ty \in {"fattr3", "wcc_attr", "cookieverf3", "writeverf3", "uint64",
                 "FSSTAT3", "FSINFO3", "PATHCONF3"} ->
            {[words |-> [i \in 1..(BlockSize(ty) \div 4) |-> 0], fields |-> <<>>]}
      [] ty = "post_op_attr" ->
            {[words |-> <<0>>, fields |-> <<0>>],
             [words |-> <<1>> \o fattr3_words, fields |-> <<1>>]}
      [] ty = "pre_op_attr" ->
            {[words |-> <<0>>, fields |-> <<0>>],
             [words |-> <<1, 0, 0, 0, 0, 0, 0>>, fields |-> <<1>>]}
      [] ty = "post_op_fh3" ->
            {[words |-> <<0>>, fields |-> <<0>>],
             [words |-> <<1, 5, 9, 9>>, fields |-> <<1, 5>>]}
      [] ty = "nfs_fh3" -> {[words |-> <<5, 9, 9>>, fields |-> <<5>>]}
      [] ty \in {"filename3", "nfspath3"} -> {[words |-> <<3, 9>>, fields |-> <<3>>]}
      [] ty = "read_bytes" ->
            {[words |-> <<0>>, fields |-> <<0>>], [words |-> <<4, 9>>, fields |-> <<4>>]}
      [] ty \in {"wcc_data", "entry3", "entryplus3"} -> ArmEncodings(StructFields(ty))
      [] ty \in {"dirlist3", "dirlistplus3"} ->
            {[words |-> <<0, 1>>, fields |-> <<0, 1>>]}
            \cup {[words |-> <<1>> \o e.words \o <<0, 0>>, fields |-> <<1, 0>>] :
                     e \in FieldEncodings(IF ty = "dirlist3" THEN "entry3" ELSE "entryplus3")}

\* Status values a server answers with.
NfsStatuses == {NFS3_OK, 1, 2, 70, NFS3ERR_JUKEBOX}

\* Accepted replies to the call with XID x of the procedure with result class
\* rc: every status with every encoding of its arm, whole or cut short by one
\* word.
DecodeReplies(x, rc) ==
    LET whole == UNION {{<<x, REPLY, MSG_ACCEPTED, 0, 0, SUCCESS, st>> \o e.words :
                            e \in ArmEncodings(IF st = NFS3_OK THEN ResArms(rc).ok
                                               ELSE ResArms(rc).fail)} :
                        st \in NfsStatuses}
    IN whole \cup {SubSeq(r, 1, Len(r) - 1) : r \in whole}

\* History: the kind of outcome of an attempt.
OutKind(o) ==
    IF o.kind = "raise" THEN (IF o.exc = "RPCTimeout" THEN "RPCTimeout" ELSE "exception")
    ELSE IF o.res.status.type # "nfsstat3" THEN "resfail"
    ELSE IF o.res.status.val = NFS3_OK THEN "NFS3_OK"
    ELSE IF o.res.status.val = NFS3ERR_JUKEBOX THEN "NFS3ERR_JUKEBOX"
    ELSE "nfsstat3"

\* History record of one attempt in the list of attempts of the call.
AttemptRec(x, a) == [xid |-> x, sent |-> a.sent, out |-> OutKind(a.o)]

\* History record of the last attempt: what _make_call_internal did.
LastRec(x, a, ev) ==
    [xid |-> x, sent |-> a.sent, reconnected |-> a.reconnected,
     returned |-> a.o.kind = "return",
     status |-> IF a.o.kind = "return" THEN a.o.res.status ELSE StatusStr(a.o.exc),
     cls |-> a.o.res.cls,
     got_reply |-> (ev.kind = "reply" /\ a.sent),
     need_reconnect |-> a.need_reconnect,
     pos |-> a.o.pos, decoded |-> a.o.decoded]

NoAttempt ==
    [xid |-> None, sent |-> FALSE, reconnected |-> FALSE, returned |-> FALSE,
     status |-> StatusStr(""), cls |-> "None", got_reply |-> FALSE,
     need_reconnect |-> FALSE, pos |-> 0, decoded |-> FALSE]

\* ------------------------------------------------------------------ Init
\* The client after construction: TCPClient.__init__ has asked the portmapper
\* (one XID allocated through TCPPortMapperClient) and connected.
CallInit ==
    /\ need_reconnect = FALSE
    /\ sock = "open"
    /\ _ever_tried_reconnect = TRUE
    /\ now = 0
    /\ connDelay = 0
    /\ pc = "idle"
    /\ layer = "raw"
    /\ res_class = "ACCESS3res"
    /\ kw_timeoutRel = None
    /\ kw_timeoutAbs = None
    /\ in_xid = None
    /\ cur_xid = None
    /\ next_xid = None
    /\ try_count = 0
    /\ util_callTries = 0
    /\ xid = None
    /\ arg_xid = None
    /\ tries = 0
    /\ callTries = 0
    /\ logger = "None"
    /\ timeoutRel = None
    /\ timeoutAbs = None
    /\ res = NoRes
    /\ result = NoRes
    /\ raised = ""
    /\ attempts = <<>>
    /\ last = NoAttempt
    /\ server_silent = TRUE
    /\ start_closed = FALSE
    /\ reply_stream = <<>>
    /\ latencies_success = TRUE

XidIdle ==
    /\ _lastxid_lock = None
    /\ tpc = [t \in Threads |-> "idle"]
    /\ tcls = [t \in Threads |-> "_RawTCPClient"]
    /\ targ = [t \in Threads |-> 0]
    /\ tval = [t \in Threads |-> 0]
    /\ xidLog = <<>>

xidThreadVars == <<_lastxid_lock, tpc, tcls, targ, tval, xidLog>>

\* Argument sets of the calls.
\* Timeout arguments <<timeoutRel, timeoutAbs>> (at most one given) together
\* with the time a connect takes in the environment of the call.
TimeoutArgs == {<<None, None, 0>>, <<500, None, 0>>, <<500, None, 600>>, <<None, 500, 0>>}
UtilTimeoutArgs == {<<None, None, 0>>}
ResClasses == {"ACCESS3res"}
XidArgs == {None, 2}

\* -------------------------------------------- transport make_call (entry)
\* _RawTCPClient.make_call up to the retry loop: defaults, xid allocation.
RawEnter(ct, ax, lg, tRel, tAbs) ==
    /\ callTries' = (IF ct # None THEN ct ELSE callTries_default)
    /\ arg_xid' = ax
    /\ IF ax = None
       THEN /\ ClassAttr(_lastxid, SelfClass) < MaxXid
            /\ xid' = get_new_xid_value(_lastxid, SelfClass)
            /\ _lastxid' = get_new_xid_state(_lastxid, SelfClass)
       ELSE /\ xid' = ax
            /\ UNCHANGED _lastxid
    /\ logger' = lg
    /\ timeoutAbs' = tAbs
    /\ timeoutRel' = (IF tAbs # None THEN tRel
                      ELSE IF tRel # None THEN tRel ELSE timeoutRel_default)
    /\ tries' = 0
    /\ pc' = "raw"

\* A caller invokes the transport make_call directly.
RawMakeCall(ct, ax, lg, tm, rc) ==
    /\ pc = "idle"
    /\ layer' = "raw"
    /\ res_class' = rc
    /\ connDelay' = tm[3]
    /\ kw_timeoutRel' = tm[1]
    /\ kw_timeoutAbs' = tm[2]
    /\ RawEnter(ct, ax, lg, tm[1], tm[2])
    /\ start_closed' = (sock = "None" /\ ~need_reconnect)
    /\ UNCHANGED <<need_reconnect, sock, _ever_tried_reconnect, now, utilVars,
                   res, result, raised, attempts, last, server_silent, reply_stream,
                   xidThreadVars>>

\* Exception classes caught by the second handler of make_call
\* (ShortRead is a ProtocolError).
WireErrors == {"ConnectionResetError", "EOFError", "ProtocolError", "ShortRead", "RPCTimeout"}

\* Where make_call goes after one attempt: the make_call handlers.
\*   go = "return": return res;  "retry": next iteration;
\*   "raise": exc leaves make_call.
Handled(go, r, exc, nr, lg) == [go |-> go, res |-> r, exc |-> exc, need_reconnect |-> nr, logger |-> lg]

\* Calling logger.warning() in a handler: fails when logger is still None.
LoggerUsable(lg) == lg # "None"

make_call_handlers(a, x, final, lg) ==
    IF a.o.kind = "return"
    THEN Handled("return", [a.o.res EXCEPT !.xid = x], "", a.need_reconnect, lg)
    ELSE IF a.o.exc = "RuntimeError"
    THEN IF ~final THEN Handled("retry", NoRes, "", TRUE, logger_get(lg))
         ELSE IF ~LoggerUsable(lg) THEN Handled("raise", NoRes, "AttributeError", TRUE, lg)
         ELSE Handled("return", ONCRPCresfail(x, StatusStrArg("RuntimeError %s", a.o.exc)), "", TRUE, lg)
    ELSE IF a.o.exc \in WireErrors
    THEN LET nr == IF a.o.exc # "RPCTimeout" THEN TRUE ELSE a.need_reconnect IN
         IF ~final THEN Handled("retry", NoRes, "", nr, logger_get(lg))
         ELSE IF a.o.exc = "RPCTimeout" THEN Handled("return", ONCRPCresfailTimeout(x), "", nr, lg)
         ELSE IF ~LoggerUsable(lg) THEN Handled("raise", NoRes, "AttributeError", nr, lg)
         ELSE Handled("return", ONCRPCresfail(x, StatusStr("RPCFailed")), "", nr, lg)
    ELSE IF ~final THEN Handled("retry", NoRes, "", TRUE, logger_get(lg))
         ELSE Handled("return", ONCRPCresfail(x, StatusStrArg("Exception:%s", a.o.exc)), "", TRUE,
                      logger_get(lg))

\* Does the retry loop run another iteration?  (while tries < callTries)
LoopContinues(t, ct) == t < ct

\* A bug: the handlers give up one try early.
IsFinalTryEarly(t, ct) == ~(t + 1 < ct)

\* The handlers' test "if tries < callTries: ... will retry / else: will not
\* retry", with tries already incremented: is this the final try?
IsFinalTry(t, ct) == ~(t < ct)

\* One iteration of the retry loop of _RawTCPClient.make_call.
RawAttempt(ev) ==
    /\ pc = "raw"
    /\ LoopContinues(tries, callTries)
    /\ ev.kind = "connect_fail" => need_reconnect
    /\ \E tAbs \in {IF timeoutRel # None THEN now + timeoutRel ELSE timeoutAbs} :
       \E a \in {_make_call_internal(ev, xid, tAbs)} :
       \E h \in {make_call_handlers(a, xid, IsFinalTry(tries + 1, callTries), logger)} :
       /\ tries' = tries + 1
       /\ timeoutAbs' = tAbs
       /\ need_reconnect' = h.need_reconnect
       /\ sock' = a.sock
       /\ _ever_tried_reconnect' = a.ever
       /\ now' = a.now
       /\ _lastxid' = a.lastxid
       /\ logger' = h.logger
       /\ attempts' = Append(attempts, AttemptRec(xid, a))
       /\ last' = LastRec(xid, a, ev)
       /\ server_silent' = (server_silent /\ ev.kind = "recv_timeout")
       /\ UNCHANGED start_closed
       /\ reply_stream' = (IF ev.kind = "reply" /\ a.sent THEN ev.reply ELSE reply_stream)
       /\ res' = (IF h.go = "return" THEN h.res ELSE res)
       /\ result' = (IF h.go = "return" /\ layer = "raw" THEN h.res ELSE result)
       /\ raised' = (IF h.go = "raise" THEN h.exc ELSE raised)
       /\ pc' = (IF h.go = "retry" THEN "raw"
                 ELSE IF h.go = "raise" THEN "raised"
                 ELSE IF layer = "util" THEN "util_after" ELSE "done")
    /\ UNCHANGED <<connDelay, layer, res_class, kw_timeoutRel, kw_timeoutAbs, utilVars,
                   xid, arg_xid, callTries, timeoutRel, xidThreadVars>>


\* ------------------------------------- nfs3_util.NFS3_Client.make_call
\* A bug: the flag follows the status of the most recent operation.
LatencyTracker_complete_last(success, status) ==
    IF status.type = "str" THEN FALSE
    ELSE IF status.type # "NoneType" /\ status.val = 0 THEN TRUE
    ELSE FALSE

\* LatencyTracker.complete: the success flag after recording status.
LatencyTracker_complete(success, status) ==
    IF status.type = "str" THEN FALSE
    ELSE IF status.type = "NoneType" THEN FALSE
    ELSE IF status.val = 0 THEN success
    ELSE FALSE

\* A bug: JUKEBOX is retried without a new XID.
UtilDecisionJukeboxSameXid(status, ix) ==
    IF status.type = "nfsstat3"
    THEN IF status.val = NFS3ERR_JUKEBOX
         THEN IF ix # None THEN "return" ELSE "same_xid"
         ELSE "return"
    ELSE "same_xid"

\* A bug: only NFS3_OK ends the loop, other NFS errors are retried.
UtilDecisionRetryNfsError(status, ix) ==
    IF status.type = "nfsstat3"
    THEN IF status.val = NFS3ERR_JUKEBOX
         THEN IF ix # None THEN "return" ELSE "new_xid"
         ELSE IF status.val = NFS3_OK THEN "return" ELSE "same_xid"
    ELSE "same_xid"

\* A bug: JUKEBOX is retried with a new XID although the caller gave one.
UtilDecisionIgnoreInXid(status, ix) ==
    IF status.type = "nfsstat3"
    THEN IF status.val = NFS3ERR_JUKEBOX
         THEN "new_xid"
         ELSE "return"
    ELSE "same_xid"

\* What the JUKEBOX loop does with the result of one attempt:
\*   "return"     return res from inside the loop
\*   "new_xid"    JUKEBOX: next_xid = self.get_new_xid(), then the retry test
\*   "same_xid"   status is no nfsstat3: straight to the retry test
UtilDecision(status, ix) ==
    IF status.type = "nfsstat3"
    THEN IF status.val = NFS3ERR_JUKEBOX
         THEN IF ix # None THEN "return" ELSE "new_xid"
         ELSE "return"
    ELSE "same_xid"

\* The test before the retry warning and the sleep: if try_count < callTries.
UtilRetries(tc, ct) == tc < ct

\* A bug: the loop test lets one attempt too many through.
UtilLoopOneMore(tc, ct) == tc <= ct

\* Loop test of the JUKEBOX loop: while try_count < callTries.
UtilLoopContinues(tc, ct) == tc < ct

\* A caller invokes nfs3_util.NFS3_Client.make_call.
UtilMakeCall(ct, ix, tm, rc) ==
    /\ pc = "idle"
    /\ layer' = "util"
    /\ res_class' = rc
    /\ connDelay' = tm[3]
    /\ kw_timeoutRel' = tm[1]
    /\ kw_timeoutAbs' = tm[2]
    /\ util_callTries' = (IF ct # None THEN ct ELSE nfs3_callTries_default)
    /\ in_xid' = ix
    /\ IF ix # None
       THEN /\ cur_xid' = ix
            /\ UNCHANGED _lastxid
       ELSE /\ ClassAttr(_lastxid, SelfClass) < MaxXid
            /\ cur_xid' = get_new_xid_value(_lastxid, SelfClass)
            /\ _lastxid' = get_new_xid_state(_lastxid, SelfClass)
    /\ next_xid' = cur_xid'
    /\ try_count' = 0
    /\ pc' = "util"
    /\ start_closed' = (sock = "None" /\ ~need_reconnect)
    /\ UNCHANGED <<need_reconnect, sock, _ever_tried_reconnect, now, latencies_success,
                   rawVars, res, result, raised, attempts, last, server_silent, reply_stream,
                   xidThreadVars>>

\* Loop head: try_count += 1 and the call of nfs3.NFS3_Client.make_call with
\* callTries=1, xid=cur_xid and the logger.
UtilTry ==
    /\ pc = "util"
    /\ UtilLoopContinues(try_count, util_callTries)
    /\ try_count' = try_count + 1
    /\ RawEnter(1, cur_xid, "logger", kw_timeoutRel, kw_timeoutAbs)
    /\ UNCHANGED <<clientVars, in_xid, cur_xid, next_xid, util_callTries, latencies_success,
                   layer, res_class, kw_timeoutRel, kw_timeoutAbs,
                   res, result, raised, attempts, last, server_silent, start_closed,
                   reply_stream, xidThreadVars>>

\* The rest of the loop body, after the transport make_call has returned res.
UtilAfter ==
    /\ pc = "util_after"
    /\ latencies_success' = LatencyTracker_complete(latencies_success, res.status)
    /\ \E d \in {UtilDecision(res.status, in_xid)} :
       IF d = "return"
       THEN /\ pc' = "done"
            /\ result' = res
            /\ UNCHANGED <<_lastxid, next_xid, cur_xid, now>>
       ELSE /\ IF d = "new_xid"
               THEN /\ ClassAttr(_lastxid, SelfClass) < MaxXid
                    /\ next_xid' = get_new_xid_value(_lastxid, SelfClass)
                    /\ _lastxid' = get_new_xid_state(_lastxid, SelfClass)
               ELSE UNCHANGED <<_lastxid, next_xid>>
            /\ IF UtilRetries(try_count, util_callTries)
               THEN /\ cur_xid' = next_xid'
                    /\ now' = now + JukeboxSleep
               ELSE UNCHANGED <<cur_xid, now>>
            /\ pc' = "util"
            /\ UNCHANGED result
    /\ UNCHANGED <<need_reconnect, sock, _ever_tried_reconnect, connDelay,
                   in_xid, try_count, util_callTries, rawVars,
                   layer, res_class, kw_timeoutRel, kw_timeoutAbs,
                   res, raised, attempts, last, server_silent, start_closed, reply_stream,
                   xidThreadVars>>

\* The loop test fails: return the result of the most recent attempt.
UtilReturn ==
    /\ pc = "util"
    /\ ~UtilLoopContinues(try_count, util_callTries)
    /\ pc' = "done"
    /\ result' = res
    /\ UNCHANGED <<clientVars, utilVars, rawVars, layer, res_class, kw_timeoutRel,
                   kw_timeoutAbs, res, raised, attempts, last, server_silent, start_closed,
                   reply_stream, _lastxid, xidThreadVars>>

\* ------------------------------------------------------- between calls
\* The caller has its result (or exception); the client is ready for the next
\* call.  Time is measured from the start of each call.
Finish ==
    /\ pc \in {"done", "raised"}
    /\ pc' = "idle"
    /\ now' = 0
    /\ res' = NoRes
    /\ result' = NoRes
    /\ raised' = ""
    /\ attempts' = <<>>
    /\ last' = NoAttempt
    /\ server_silent' = TRUE
    /\ start_closed' = FALSE
    /\ reply_stream' = <<>>
    /\ in_xid' = None
    /\ cur_xid' = None
    /\ next_xid' = None
    /\ try_count' = 0
    /\ util_callTries' = 0
    /\ xid' = None
    /\ arg_xid' = None
    /\ tries' = 0
    /\ callTries' = 0
    /\ logger' = "None"
    /\ timeoutRel' = None
    /\ timeoutAbs' = None
    /\ kw_timeoutRel' = None
    /\ kw_timeoutAbs' = None
    /\ connDelay' = 0
    /\ layer' = "raw"
    /\ res_class' = "ACCESS3res"
    /\ UNCHANGED <<need_reconnect, sock, _ever_tried_reconnect, latencies_success,
                   _lastxid, xidThreadVars>>

\* close(): the socket is closed and forgotten; need_reconnect is not touched.
Close ==
    /\ pc = "idle"
    /\ sock # "None"
    /\ sock' = "None"
    /\ UNCHANGED <<need_reconnect, _ever_tried_reconnect, now, connDelay, utilVars, rawVars,
                   pc, layer, res_class, kw_timeoutRel, kw_timeoutAbs,
                   res, result, raised, attempts, last, server_silent, start_closed,
                   reply_stream, _lastxid, xidThreadVars>>

CallTriesArgs == 1..MaxTries

\* ------------------------------------------------------- wire data types
\* Pure functions of the wire types are applied one at a time: fn names the
\* function, fn_in is its input, fn_out its outcome.
\* fn_self is the array object the function created or was applied to, as it is
\* after the call.
VARIABLES fn, fn_in, fn_out, fn_self

wireVars == <<fn, fn_in, fn_out, fn_self>>

\* Outcome of a function: a returned value or a raised exception.
FnReturn(v) == [kind |-> "return", val |-> v, exc |-> ""]
FnRaise(e) == [kind |-> "raise", val |-> <<>>, exc |-> e]

\* The subclasses of annotated_enum (rpc_rfc1057.py, nfs3.py).
EnumClasses ==
    {"msg_type", "reply_stat", "accept_stat", "reject_stat", "Auth_stat",
     "mountstat3", "nfsstat3", "ftype3", "stable_how", "createmode3", "time_how"}

\* The class attribute _MISMATCH_CMP_ALLOW: set by these classes, False in
\* annotated_enum itself.
_MISMATCH_CMP_ALLOW(cls) ==
    cls \in {"reply_stat", "accept_stat", "reject_stat", "Auth_stat", "mountstat3", "nfsstat3"}

\* The class attribute _MISMATCH_CMP_EXCEPT: False in annotated_enum, and no
\* subclass sets it.
_MISMATCH_CMP_EXCEPT(cls) == FALSE

\* Operands that are not annotated_enum instances: a str or an int.
IntValue(v) == [type |-> "int", val |-> v, text |-> "", arg |-> ""]

\* annotated_enum.__eq__(self, other); self is an enum value.  A str never
\* equals the integer _val.
annotated_enum_eq(self, other) ==
    IF other.type \in EnumClasses
    THEN IF self.type # other.type /\ _MISMATCH_CMP_ALLOW(self.type)
         THEN FnReturn(FALSE)
         ELSE IF self.type # other.type /\ _MISMATCH_CMP_EXCEPT(self.type)
              THEN FnRaise("TypeError")
              ELSE FnReturn(self.val = other.val)
    ELSE IF other.type = "str" /\ _MISMATCH_CMP_ALLOW(self.type)
         THEN FnReturn(FALSE)
         ELSE IF _MISMATCH_CMP_EXCEPT(self.type)
              THEN FnRaise("TypeError")
              ELSE FnReturn(other.type = "int" /\ self.val = other.val)

\* annotated_enum.__ne__
annotated_enum_ne(self, other) ==
    LET e == annotated_enum_eq(self, other) IN
    IF e.kind = "raise" THEN e ELSE FnReturn(~e.val)

\* annotated_enum.__lt__, __le__, __gt__, __ge__
annotated_enum_order(self, other) == FnRaise("TypeError")

MaxEnumVal == 2
EnumValues == {StatusEnum(c, v) : c \in EnumClasses, v \in 0..MaxEnumVal}
EnumOperands == EnumValues \cup {IntValue(v) : v \in 0..MaxEnumVal} \cup {StatusStr("0")}
OrderOps == {"__lt__", "__le__", "__gt__", "__ge__"}


\* Byte strings are sequences of numbers 0..255; a stream is a byte string and
\* a position, the number of bytes consumed.
Zeros(n) == [i \in 1..n |-> 0]

\* struct.pack('!I', n) and struct.unpack('!I', b): 32 bits, big-endian.
pack_I(n) == <<(n \div 16777216) % 256, (n \div 65536) % 256, (n \div 256) % 256, n % 256>>
unpack_I(b) == ((b[1] * 256 + b[2]) * 256 + b[3]) * 256 + b[4]

\* Outcome of a read from a stream: the value and the position behind it, or
\* the exception.
Decoded(v, pos) == [kind |-> "return", val |-> v, exc |-> "", pos |-> pos]
DecodeError(e, pos) == [kind |-> "raise", val |-> <<>>, exc |-> e, pos |-> pos]

\* ONCRPCwire.read_exact: count bytes, ShortRead when the stream holds fewer
\* (stream.read has then consumed what was left).
read_exact(stream, pos, count) ==
    IF pos + count <= Len(stream)
    THEN Decoded(SubSeq(stream, pos + 1, pos + count), pos + count)
    ELSE DecodeError("ShortRead", Len(stream))

\* ONCRPCwire.read_uint32
read_uint32(stream, pos) ==
    LET r == read_exact(stream, pos, 4) IN
    IF r.kind = "raise" THEN r ELSE Decoded(unpack_I(r.val), r.pos)

\* ONCRPCwire.read_then_align: count bytes, then the bytes that round count up
\* to a multiple of align.
read_then_align(stream, pos, count, align) ==
    LET r == read_exact(stream, pos, count)
        extra == count % align
    IN
    IF r.kind = "raise" \/ extra = 0 THEN r
    ELSE LET p == read_exact(stream, r.pos, align - extra) IN
         IF p.kind = "raise" THEN p ELSE Decoded(r.val, p.pos)

\* The array classes: vararray and its subclasses without a limit, the
\* subclasses of vararray_limited, the subclasses of fixedarray.
VarTypes == {"filename3", "nfspath3"}
LimitedTypes == {"nfs_fh3", "fhandle3", "dirpath"}
FixedTypes == {"cookieverf3", "createverf3", "writeverf3"}
ArrayTypes == VarTypes \cup LimitedTypes \cup FixedTypes

\* The class attribute _MAXSIZE of the subclasses of vararray_limited.
_MAXSIZE(t) ==
    CASE t = "nfs_fh3" -> NFS3_FHSIZE
      [] t = "fhandle3" -> FHSIZE3
      [] t = "dirpath" -> MNTPATHLEN

\* The class attribute _FIXEDSIZE of the subclasses of fixedarray.
_FIXEDSIZE(t) == NFS3_COOKIEVERFSIZE

\* Data handed to a constructor or to the buf setter: bytes, bytearray, str
\* (encoded by os.fsencode, one byte per character here), vararray, None, or
\* something of another type.
DataTypes == {"bytes", "bytearray", "str", "vararray", "NoneType", "int"}
Data(ty, b) == [type |-> ty, val |-> IF ty \in {"NoneType", "int"} THEN <<>> ELSE b]

\* An array object: its class and _buf; fresh while _buf is still None.
NoObject == [exists |-> FALSE, type |-> "None", buf |-> <<>>, fresh |-> FALSE]
ArrayObject(t, b) == [exists |-> TRUE, type |-> t, buf |-> b, fresh |-> FALSE]

\* The buf setters applied to the object self: the object afterwards and the
\* exception raised, if any.
\*   vararray.buf: _buf may be written once (assert), then the conversion.
\*   vararray_limited.buf: the conversion is stored in _buf, then check_size
\*   is applied to what was stored (for str also before the conversion).
buf_setter(self, data) ==
    IF self.type \in LimitedTypes
    THEN IF data.type = "int" THEN [self |-> self, exc |-> "TypeError"]
         ELSE IF data.type = "str" /\ Len(data.val) > _MAXSIZE(self.type)
         THEN [self |-> self, exc |-> "AssertionError"]
         ELSE [self |-> [self EXCEPT !.buf = data.val, !.fresh = FALSE],
               exc |-> IF Len(data.val) > _MAXSIZE(self.type) THEN "AssertionError" ELSE ""]
    ELSE IF ~self.fresh THEN [self |-> self, exc |-> "AssertionError"]
         ELSE IF data.type = "int" THEN [self |-> self, exc |-> "TypeError"]
         ELSE [self |-> [self EXCEPT !.buf = data.val, !.fresh = FALSE], exc |-> ""]

\* cls(data=data) for an array class cls: vararray.__init__ sets _buf to None
\* and assigns data to buf; fixedarray.__init__ first replaces None by zeros
\* and asserts the length of other data (len() of an int is a TypeError).  The
\* object exists only if no exception left __init__.
array_init(t, data) ==
    LET d == IF t \in FixedTypes /\ data.type = "NoneType"
             THEN Data("bytes", Zeros(_FIXEDSIZE(t))) ELSE data
        s == buf_setter([exists |-> TRUE, type |-> t, buf |-> <<>>, fresh |-> TRUE], d)
    IN
    IF t \in FixedTypes /\ d.type = "int" THEN [self |-> NoObject, exc |-> "TypeError"]
    ELSE IF t \in FixedTypes /\ Len(d.val) # _FIXEDSIZE(t)
    THEN [self |-> NoObject, exc |-> "AssertionError"]
    ELSE IF s.exc # "" THEN [self |-> NoObject, exc |-> s.exc]
    ELSE s

\* vararray.write: the length word, the bytes, zeros up to a multiple of 4.
vararray_write(buf) == pack_I(Len(buf)) \o buf \o Zeros((4 - (Len(buf) % 4)) % 4)

\* fixedarray.write: asserts the length, then vararray.write.
fixedarray_write(t, buf) ==
    IF Len(buf) # _FIXEDSIZE(t) THEN FnRaise("AssertionError") ELSE FnReturn(vararray_write(buf))

\* cls.read(stream) for an array class:
\*   vararray.read: length word, read_then_align;
\*   vararray_limited.read: ProtocolError for a length word above _MAXSIZE;
\*   fixedarray.read: read_then_align of _FIXEDSIZE bytes.
array_read(t, stream, pos) ==
    IF t \in FixedTypes THEN read_then_align(stream, pos, _FIXEDSIZE(t), 4)
    ELSE LET count == read_uint32(stream, pos) IN
         IF count.kind = "raise" THEN count
         ELSE IF t \in LimitedTypes /\ count.val > _MAXSIZE(t)
              THEN DecodeError("ProtocolError", count.pos)
              ELSE read_then_align(stream, count.pos, count.val, 4)

\* The other types with write and read.  Values: nfstime3 <<seconds,
\* nseconds>>, specdata3 <<specdata1, specdata2>>, diropargs3 <<adir, name>>
\* with the bytes of the handle and of the name.
StructTypes == {"nfstime3", "specdata3", "diropargs3"}
CodecTypes == ArrayTypes \cup StructTypes

\* createmode3 (nfs3.py)
createmode3_UNCHECKED == 0
createmode3_GUARDED == 1
createmode3_EXCLUSIVE == 2

\* sattr3.write of sattr3(): mode, uid, gid, size, atime and mtime, each the
\* discriminant of a value that is not set.
sattr3_write == pack_I(0) \o pack_I(0) \o pack_I(0) \o pack_I(0) \o pack_I(0) \o pack_I(0)

\* v.write(stream) on an empty stream: the bytes written.
\*   nfstime3, specdata3: struct.pack('!II', ..);
\*   diropargs3: adir.write, name.write;
\*   createhow3 [mode, verf]: the mode, then obj_attributes.write for
\*   createmode3_UNCHECKED and createmode3_GUARDED, verf.write for createmode3_EXCLUSIVE, ValueError for another
\*   mode.
wire_write(t, v) ==
    IF t \in FixedTypes THEN fixedarray_write(t, v)
    ELSE IF t \in ArrayTypes THEN FnReturn(vararray_write(v))
    ELSE IF t \in {"nfstime3", "specdata3"} THEN FnReturn(pack_I(v[1]) \o pack_I(v[2]))
    ELSE IF t = "diropargs3" THEN FnReturn(vararray_write(v[1]) \o vararray_write(v[2]))
    ELSE IF v.mode \in {createmode3_UNCHECKED, createmode3_GUARDED}
    THEN FnReturn(pack_I(v.mode) \o sattr3_write)
    ELSE IF v.mode = createmode3_EXCLUSIVE
    THEN LET w == fixedarray_write("createverf3", v.verf) IN
         IF w.kind = "raise" THEN w ELSE FnReturn(pack_I(v.mode) \o w.val)
    ELSE FnRaise("ValueError")

\* cls.read(stream) for the types with write and read.
wire_read(t, stream, pos) ==
    IF t \in ArrayTypes THEN array_read(t, stream, pos)
    ELSE IF t \in {"nfstime3", "specdata3"}
    THEN LET r == read_exact(stream, pos, 8) IN
         IF r.kind = "raise" THEN r
         ELSE Decoded(<<unpack_I(SubSeq(r.val, 1, 4)), unpack_I(SubSeq(r.val, 5, 8))>>, r.pos)
    ELSE LET adir == array_read("nfs_fh3", stream, pos) IN
         IF adir.kind = "raise" THEN adir
         ELSE LET aname == array_read("filename3", stream, adir.pos) IN
              IF aname.kind = "raise" THEN aname
              ELSE Decoded(<<adir.val, aname.val>>, aname.pos)

\* Inputs.  Byte strings of one repeated byte, of the lengths up to MaxLen and
\* of the lengths around the sizes of the protocol.
MaxLen == 5
Bytes(n, b) == [i \in 1..n |-> b]
Lengths == (0..MaxLen) \cup {NFS3_COOKIEVERFSIZE} \cup (NFS3_FHSIZE - 1 .. NFS3_FHSIZE + 1)
ByteStrings == {Bytes(n, b) : n \in Lengths, b \in {1, 127}}
Words == {0, 1, 258, 70000}

\* The valid values of a type.
WireValues(t) ==
    IF t \in FixedTypes THEN {b \in ByteStrings : Len(b) = _FIXEDSIZE(t)}
    ELSE IF t \in LimitedTypes THEN {b \in ByteStrings : Len(b) <= _MAXSIZE(t)}
    ELSE IF t \in VarTypes THEN ByteStrings
    ELSE IF t = "diropargs3"
    THEN {<<d, n>> : d \in {b \in ByteStrings : Len(b) <= NFS3_FHSIZE},
                     n \in {b \in ByteStrings : Len(b) <= MaxLen}}
    ELSE {<<a, b>> : a \in Words, b \in Words}

CreatehowValues ==
    {[mode |-> m, verf |-> b] : m \in createmode3_UNCHECKED..createmode3_EXCLUSIVE + 1,
                                b \in {c \in ByteStrings : Len(c) = NFS3_COOKIEVERFSIZE}}

\* Streams to decode from: a length word and the bytes of some byte string,
\* complete or cut short.
Streams ==
    {pack_I(n) \o b : n \in Lengths, b \in {c \in ByteStrings : Len(c) <= MaxLen}}
    \cup {pack_I(Len(b)) \o b : b \in ByteStrings}
    \cup {<<0, 0>>}

WireIdle ==
    /\ fn = "None"
    /\ fn_in = <<>>
    /\ fn_out = FnReturn(<<>>)
    /\ fn_self = NoObject

\* The caller has the outcome; the next function can be applied.
WireDone ==
    /\ fn # "None"
    /\ fn' = "None"
    /\ fn_in' = <<>>
    /\ fn_out' = FnReturn(<<>>)
    /\ fn_self' = NoObject

\* a == b, a != b
EnumCompare(a, b) ==
    /\ fn = "None"
    /\ fn' \in {"__eq__", "__ne__"}
    /\ fn_in' = <<a, b>>
    /\ fn_out' = IF fn' = "__eq__" THEN annotated_enum_eq(a, b) ELSE annotated_enum_ne(a, b)
    /\ fn_self' = NoObject

\* a < b, a <= b, a > b, a >= b
EnumOrder(o, a, b) ==
    /\ fn = "None"
    /\ fn' = o
    /\ fn_in' = <<a, b>>
    /\ fn_out' = annotated_enum_order(a, b)
    /\ fn_self' = NoObject

\* v.write(stream) for a valid value v of type t.
WireWrite(t, v) ==
    /\ fn = "None"
    /\ fn' = "write"
    /\ fn_in' = <<t, v>>
    /\ fn_out' = wire_write(t, v)
    /\ fn_self' = IF t \in ArrayTypes THEN ArrayObject(t, v) ELSE NoObject

\* cls.read(stream) on the bytes the write before it produced.
WireReadBack ==
    /\ fn = "write"
    /\ fn_in[1] \in CodecTypes
    /\ fn_out.kind = "return"
    /\ fn' = "read_back"
    /\ fn_in' = <<fn_in[1], fn_in[2], fn_out.val>>
    /\ \E r \in {wire_read(fn_in[1], fn_out.val, 0)} :
          /\ fn_out' = r
          /\ fn_self' = IF r.kind = "return" /\ fn_in[1] \in ArrayTypes
                        THEN array_init(fn_in[1], Data("bytes", r.val)).self ELSE NoObject

\* cls.read(stream) on bytes from elsewhere.
WireRead(t, stream) ==
    /\ fn = "None"
    /\ fn' = "read"
    /\ fn_in' = <<t, stream>>
    /\ \E r \in {wire_read(t, stream, 0)} :
          /\ fn_out' = r
          /\ fn_self' = IF r.kind = "return" /\ t \in ArrayTypes
                        THEN array_init(t, Data("bytes", r.val)).self ELSE NoObject

\* cls(data=data) for an array class.
ArrayInit(t, data) ==
    /\ fn = "None"
    /\ fn' = "__init__"
    /\ fn_in' = <<t, data>>
    /\ \E c \in {array_init(t, data)} :
          /\ fn_out' = IF c.exc # "" THEN FnRaise(c.exc) ELSE FnReturn(c.self.buf)
          /\ fn_self' = c.self

\* obj.buf = data for the array object that was just constructed or decoded.
BufSet(data) ==
    /\ fn \in {"__init__", "read"}
    /\ fn_self.exists
    /\ fn' = "buf"
    /\ fn_in' = <<fn_self.type, data>>
    /\ \E c \in {buf_setter(fn_self, data)} :
          /\ fn_out' = IF c.exc # "" THEN FnRaise(c.exc) ELSE FnReturn(c.self.buf)
          /\ fn_self' = c.self

\* ------------------------------------------------------- path resolution
\* resolve_path / resolve_path_from (nfs3_util.py).  A path is a sequence of
\* characters; a handle is its class and its bytes (a number).  The RPCs
\* issued are logged with their arguments and results.
VARIABLES rp_pc, rp_path, rp_start, rp_fh, rp_comps, rp_rpcs, rp_ret, rp_exc

pathVars == <<rp_pc, rp_path, rp_start, rp_fh, rp_comps, rp_rpcs, rp_ret, rp_exc>>

sep == "/"
NoHandle == [type |-> "NoneType", data |-> 0]
Handle(ty, d) == [type |-> ty, data |-> d]

\* vararray.__eq__ / nfs_fh3.__eq__ between two handles: the bytes decide.
handle_eq(a, b) == a.type # "NoneType" /\ b.type # "NoneType" /\ a.data = b.data

\* str.split(os.path.sep)
RECURSIVE path_split(_)
path_split(p) ==
    IF \A i \in 1..Len(p) : p[i] # sep THEN <<p>>
    ELSE LET k == CHOOSE i \in 1..Len(p) : p[i] = sep /\ \A j \in 1..(i - 1) : p[j] # sep
         IN <<SubSeq(p, 1, k - 1)>> \o path_split(SubSeq(p, k + 1, Len(p)))

\* A bug: a failed LOOKUP is taken for a success.
LookupFailedNever(status) == FALSE

\* lookup_res.status != nfs3.nfsstat3_NFS3_OK
LookupFailed(status) == status # NFS3_OK

\* A bug: an empty component is looked up like any other.
EmptyCompNever(comp) == FALSE

\* if not comp
EmptyComp(comp) == comp = <<>>

\* A logged RPC: the procedure, the directory handle and name of the request,
\* the status and the handle of the result.
Rpc(proc, dir, nm, st, h) == [proc |-> proc, dir |-> dir, name |-> nm, status |-> st, handle |-> h]

PathIdle ==
    /\ rp_pc = "idle"
    /\ rp_path = <<>>
    /\ rp_start = NoHandle
    /\ rp_fh = NoHandle
    /\ rp_comps = <<>>
    /\ rp_rpcs = <<>>
    /\ rp_ret = NoHandle
    /\ rp_exc = ""

\* resolve_path_from(mnt, cli, fh, p) up to its first RPC; resolve_path is the
\* call with fh = None.
ResolveCall(start, p) ==
    /\ rp_pc = "idle"
    /\ rp_path' = p
    /\ rp_start' = start
    /\ rp_rpcs' = <<>>
    /\ rp_ret' = NoHandle
    /\ IF p = <<>>
       THEN rp_pc' = "raised" /\ rp_exc' = "ValueError" /\ UNCHANGED <<rp_fh, rp_comps>>
       ELSE IF start = NoHandle
       THEN IF p[1] # sep
            THEN rp_pc' = "raised" /\ rp_exc' = "ValueError" /\ UNCHANGED <<rp_fh, rp_comps>>
            ELSE rp_pc' = "mount" /\ rp_exc' = "" /\ UNCHANGED <<rp_fh, rp_comps>>
       ELSE IF p[1] = sep
            THEN rp_pc' = "raised" /\ rp_exc' = "ValueError" /\ UNCHANGED <<rp_fh, rp_comps>>
            ELSE /\ rp_pc' = "loop"
                 /\ rp_exc' = ""
                 /\ rp_fh' = start
                 /\ rp_comps' = path_split(p)

\* get_rootfh_using_mnt: MOUNT "/" answered with status st and handle h (an
\* fhandle3 when st is MNT3_OK); then the return for "/" or the split.
ResolveMount(st, h) ==
    /\ rp_pc = "mount"
    /\ rp_rpcs' = Append(rp_rpcs, Rpc("MNT", NoHandle, <<sep>>, st,
                                       IF st = 0 THEN h ELSE NoHandle))
    /\ IF st # 0
       THEN rp_pc' = "raised" /\ rp_exc' = "RuntimeError" /\ UNCHANGED <<rp_fh, rp_comps, rp_ret>>
       ELSE IF rp_path = <<sep>>
       THEN /\ rp_pc' = "done"
            /\ rp_ret' = Handle("nfs_fh3", h.data)
            /\ rp_fh' = h
            /\ UNCHANGED <<rp_comps, rp_exc>>
       ELSE /\ rp_pc' = "loop"
            /\ rp_fh' = h
            /\ rp_comps' = path_split(Tail(rp_path))
            /\ UNCHANGED <<rp_ret, rp_exc>>
    /\ UNCHANGED <<rp_path, rp_start>>

\* One iteration of "for comp in comps": LOOKUP of comp in fh, answered with
\* status st and handle h.
ResolveLookup(st, h) ==
    /\ rp_pc = "loop"
    /\ rp_comps # <<>>
    /\ IF EmptyComp(Head(rp_comps))
       THEN rp_pc' = "raised" /\ rp_exc' = "ValueError" /\ UNCHANGED <<rp_fh, rp_comps, rp_rpcs>>
       ELSE /\ rp_rpcs' = Append(rp_rpcs, Rpc("LOOKUP", rp_fh, Head(rp_comps), st,
                                              IF st = NFS3_OK THEN h ELSE NoHandle))
            /\ IF LookupFailed(st)
               THEN rp_pc' = "raised" /\ rp_exc' = "RuntimeError" /\ UNCHANGED <<rp_fh, rp_comps>>
               ELSE /\ rp_fh' = IF st = NFS3_OK THEN h ELSE NoHandle
                    /\ rp_comps' = Tail(rp_comps)
                    /\ UNCHANGED <<rp_pc, rp_exc>>
    /\ UNCHANGED <<rp_path, rp_start, rp_ret>>

\* return fh
ResolveReturn ==
    /\ rp_pc = "loop"
    /\ rp_comps = <<>>
    /\ rp_pc' = "done"
    /\ rp_ret' = rp_fh
    /\ UNCHANGED <<rp_path, rp_start, rp_fh, rp_comps, rp_rpcs, rp_exc>>

\* The caller has the handle or the exception.
ResolveDone ==
    /\ rp_pc \in {"done", "raised"}
    /\ rp_pc' = "idle"
    /\ rp_path' = <<>>
    /\ rp_start' = NoHandle
    /\ rp_fh' = NoHandle
    /\ rp_comps' = <<>>
    /\ rp_rpcs' = <<>>
    /\ rp_ret' = NoHandle
    /\ rp_exc' = ""

\* Inputs: the paths of up to MaxPathLen characters, the handles a server
\* issues (never empty), the statuses it answers with.
MaxPathLen == 4
MaxHandle == 2
PathChars == {sep, "a", "b"}
Paths == UNION {[1..n -> PathChars] : n \in 0..MaxPathLen}
ServerHandles(ty) == {Handle(ty, d) : d \in 1..MaxHandle}
LookupStatuses == {NFS3_OK, 2}

\* ------------------------------------------------------ directory listing
\* NFS3_Client.readdir_entire_dir / readdirplus_entire_dir (nfs3_util.py).
\* rd_plus tells which of the two runs.  The requests sent and the responses
\* received are logged.
VARIABLES rd_pc, rd_plus, rd_cookie, rd_cookieverf, rd_entries, rd_reqs, rd_pages,
          rd_ret, rd_exc

dirVars == <<rd_pc, rd_plus, rd_cookie, rd_cookieverf, rd_entries, rd_reqs, rd_pages,
             rd_ret, rd_exc>>

Str(s) == [type |-> "str", data |-> s]
FileName(s) == [type |-> "filename3", data |-> s]

\* entry3.read / entryplus3.read: the name of a decoded entry is a filename3.
Entry(nm, c) == [name |-> FileName(nm), cookie |-> c]

\* A READDIR3res / READDIRPLUS3res: with a status other than NFS3_OK it has
\* neither cookieverf nor reply.
OkPage(es, eof, verf) == [status |-> NFS3_OK, entries |-> es, eof |-> eof, cookieverf |-> verf]
FailPage(st) == [status |-> st, entries |-> <<>>, eof |-> FALSE, cookieverf |-> <<>>]

DirReq(c, v) == [cookie |-> c, cookieverf |-> v]
DirRet(ok, es) == [ok |-> ok, entries |-> es]
NoRet == [ok |-> FALSE, entries |-> <<-1>>]

\* The name "logger" at the failure branch: readdirplus_entire_dir has it as a
\* parameter; readdir_entire_dir has no such parameter, and the assignment in
\* the branch makes it a local that is read before it is bound.
logger_bound(plus) == plus

DirIdle ==
    /\ rd_pc = "idle"
    /\ rd_plus = FALSE
    /\ rd_cookie = 0
    /\ rd_cookieverf = <<>>
    /\ rd_entries = <<>>
    /\ rd_reqs = <<>>
    /\ rd_pages = <<>>
    /\ rd_ret = NoRet
    /\ rd_exc = ""

\* The statements before "while True".
DirCall(plus) ==
    /\ rd_pc = "idle"
    /\ rd_pc' = "loop"
    /\ rd_plus' = plus
    /\ rd_cookie' = 0
    /\ rd_cookieverf' = Zeros(NFS3_COOKIEVERFSIZE)
    /\ rd_entries' = <<>>
    /\ rd_reqs' = <<>>
    /\ rd_pages' = <<>>
    /\ rd_ret' = NoRet
    /\ rd_exc' = ""

MaxPages == 3

\* One iteration of "while True": the request, answered with pg.
DirPage(pg) ==
    /\ rd_pc = "loop"
    /\ Len(rd_pages) < MaxPages
    /\ rd_reqs' = Append(rd_reqs, DirReq(rd_cookie, rd_cookieverf))
    /\ rd_pages' = Append(rd_pages, pg)
    /\ IF pg.status # NFS3_OK
       THEN /\ IF logger_bound(rd_plus)
               THEN rd_pc' = "returned" /\ rd_ret' = DirRet(FALSE, <<>>) /\ rd_exc' = ""
               ELSE rd_pc' = "raised" /\ rd_exc' = "UnboundLocalError" /\ rd_ret' = NoRet
            /\ UNCHANGED <<rd_cookie, rd_cookieverf, rd_entries>>
       ELSE /\ rd_entries' = rd_entries \o pg.entries
            /\ IF pg.eof
               THEN /\ rd_pc' = "returned"
                    /\ rd_ret' = DirRet(TRUE, rd_entries \o pg.entries)
                    /\ UNCHANGED <<rd_cookie, rd_cookieverf, rd_exc>>
               ELSE IF Len(pg.entries) = 0
               THEN /\ rd_pc' = "raised"
                    /\ rd_exc' = "IndexError"
                    /\ UNCHANGED <<rd_cookie, rd_cookieverf, rd_ret>>
               ELSE /\ rd_cookie' = pg.entries[Len(pg.entries)].cookie
                    /\ rd_cookieverf' = pg.cookieverf
                    /\ UNCHANGED <<rd_pc, rd_ret, rd_exc>>
    /\ UNCHANGED rd_plus

\* The caller has the pair or the exception.
DirDone ==
    /\ rd_pc \in {"returned", "raised"}
    /\ rd_pc' = "idle"
    /\ rd_plus' = FALSE
    /\ rd_cookie' = 0
    /\ rd_cookieverf' = <<>>
    /\ rd_entries' = <<>>
    /\ rd_reqs' = <<>>
    /\ rd_pages' = <<>>
    /\ rd_ret' = NoRet
    /\ rd_exc' = ""

\* Inputs: pages of up to MaxPageLen entries, with one of two verifiers, or a
\* failure.
MaxPageLen == 2
DirEntries == {Entry(<<"a">>, 1), Entry(<<"b">>, 2)}
Verifiers == {[i \in 1..NFS3_COOKIEVERFSIZE |-> b] : b \in {1, 2}}
EntryLists(E) == UNION {[1..n -> E] : n \in 0..MaxPageLen}
DirPages ==
    {OkPage(es, eof, v) : es \in EntryLists(DirEntries), eof \in BOOLEAN, v \in Verifiers}
        \cup {FailPage(st) : st \in {NFS3ERR_NOENT, NFS3ERR_JUKEBOX}}

\* ------------------------------------------------------- subtree removal
\* NFS3_Client.remove_subtree (nfs3_util.py).  rm_stack holds one frame for
\* each call in progress, the innermost last; the listing of a directory is
\* the readdirplus_entire_dir of the section above.
VARIABLES rm_pc, rm_stack, rm_rpcs, rm_ret, rm_exc

rmVars == <<rm_pc, rm_stack, rm_rpcs, rm_ret, rm_exc>>

\* The names the walk leaves alone.
SkipNames == {<<".">>, <<".", ".">>, <<".", "s", "n", "a", "p", "s", "h", "o", "t">>}

\* entry.name in ('.', '..', '.snapshot'): filename3 == str compares the bytes.
name_skipped(name) == \E s \in SkipNames : handle_eq(name, Str(s))

\* The three isinstance checks at the head of remove_subtree.
args_are_typed(parent_dir_path, parent_dir_fh, remove_name) ==
    /\ parent_dir_path.type = "str"
    /\ parent_dir_fh.type = "nfs_fh3"
    /\ remove_name.type = "str"

Frame(path, fh, name) ==
    [path |-> path, fh |-> fh, name |-> name, pc |-> "remove", remove_fh |-> NoHandle,
     entries |-> <<>>, ret |-> TRUE]

\* A logged RPC or listing: what was asked and what came back.
RmRpc(proc, dir, nm, st, es) == [proc |-> proc, dir |-> dir, name |-> nm, status |-> st, entries |-> es]

Top == rm_stack[Len(rm_stack)]
SetTop(f) == [rm_stack EXCEPT ![Len(rm_stack)] = f]

RmIdle ==
    /\ rm_pc = "idle"
    /\ rm_stack = <<>>
    /\ rm_rpcs = <<>>
    /\ rm_ret = FALSE
    /\ rm_exc = ""

\* A call by the user of the client.
RmCall(parent_dir_path, parent_dir_fh, remove_name) ==
    /\ rm_pc = "idle"
    /\ rd_pc = "idle"
    /\ IF args_are_typed(parent_dir_path, parent_dir_fh, remove_name)
       THEN /\ rm_pc' = "run"
            /\ rm_stack' = <<Frame(parent_dir_path, parent_dir_fh, remove_name)>>
            /\ rm_exc' = ""
       ELSE /\ rm_pc' = "raised"
            /\ rm_exc' = "TypeError"
            /\ rm_stack' = <<>>
    /\ rm_rpcs' = <<>>
    /\ rm_ret' = FALSE
    /\ UNCHANGED dirVars

\* REMOVE of the name, answered with status st.
RmRemove(st) ==
    /\ rm_pc = "run"
    /\ Top.pc = "remove"
    /\ rm_rpcs' = Append(rm_rpcs, RmRpc("REMOVE", Top.fh, Top.name, st, <<>>))
    /\ rm_stack' = SetTop(IF st = NFS3_OK \/ st = NFS3ERR_NOENT
                          THEN [Top EXCEPT !.pc = "return", !.ret = TRUE]
                          ELSE IF st # NFS3ERR_ISDIR
                          THEN [Top EXCEPT !.pc = "return", !.ret = FALSE]
                          ELSE [Top EXCEPT !.pc = "lookup"])
    /\ UNCHANGED <<rm_pc, rm_ret, rm_exc, dirVars>>

\* LOOKUP of the name, answered with status st and handle h; on success the
\* listing of the directory begins.
RmLookup(st, h) ==
    /\ rm_pc = "run"
    /\ Top.pc = "lookup"
    /\ rm_rpcs' = Append(rm_rpcs, RmRpc("LOOKUP", Top.fh, Top.name, st, <<>>))
    /\ IF st = NFS3ERR_NOENT
       THEN rm_stack' = SetTop([Top EXCEPT !.pc = "return", !.ret = TRUE]) /\ UNCHANGED dirVars
       ELSE IF st # NFS3_OK
       THEN rm_stack' = SetTop([Top EXCEPT !.pc = "return", !.ret = FALSE]) /\ UNCHANGED dirVars
       ELSE /\ rm_stack' = SetTop([Top EXCEPT !.pc = "list", !.remove_fh = h])
            /\ DirCall(TRUE)
    /\ UNCHANGED <<rm_pc, rm_ret, rm_exc>>

\* rdp_ret, entries = self.readdirplus_entire_dir(remove_fh)
RmListed ==
    /\ rm_pc = "run"
    /\ Top.pc = "list"
    /\ rd_pc \in {"returned", "raised"}
    /\ IF rd_pc = "raised"
       THEN /\ rm_pc' = "raised"
            /\ rm_exc' = rd_exc
            /\ UNCHANGED <<rm_stack, rm_rpcs>>
       ELSE /\ rm_rpcs' = Append(rm_rpcs, RmRpc("READDIRPLUS", Top.remove_fh, Top.name,
                                                IF rd_ret.ok THEN NFS3_OK ELSE 1, rd_ret.entries))
            /\ rm_stack' = SetTop(IF rd_ret.ok
                                  THEN [Top EXCEPT !.pc = "entries", !.entries = rd_ret.entries]
                                  ELSE [Top EXCEPT !.pc = "rmdir"])
            /\ UNCHANGED <<rm_pc, rm_exc>>
    /\ DirDone
    /\ UNCHANGED rm_ret

\* One iteration of "for entry in entries", up to the call of remove_subtree
\* for the entry; the loop's end.
RmEntry ==
    /\ rm_pc = "run"
    /\ Top.pc = "entries"
    /\ IF Top.entries = <<>>
       THEN rm_stack' = SetTop([Top EXCEPT !.pc = "rmdir"]) /\ UNCHANGED <<rm_pc, rm_exc>>
       ELSE \E entry \in {Head(Top.entries)} :
              \E child \in {Frame(Str(Top.path.data \o <<sep>> \o Top.name.data),
                                  Top.remove_fh, entry.name)} :
                IF name_skipped(entry.name)
                THEN /\ rm_stack' = SetTop([Top EXCEPT !.entries = Tail(Top.entries)])
                     /\ UNCHANGED <<rm_pc, rm_exc>>
                ELSE IF args_are_typed(child.path, child.fh, child.name)
                THEN /\ rm_stack' = Append(SetTop([Top EXCEPT !.entries = Tail(Top.entries),
                                                              !.pc = "child"]), child)
                     /\ UNCHANGED <<rm_pc, rm_exc>>
                ELSE /\ rm_pc' = "raised"
                     /\ rm_exc' = "TypeError"
                     /\ UNCHANGED rm_stack
    /\ UNCHANGED <<rm_rpcs, rm_ret, dirVars>>

\* RMDIR of the name, answered with status st.
RmRmdir(st) ==
    /\ rm_pc = "run"
    /\ Top.pc = "rmdir"
    /\ rm_rpcs' = Append(rm_rpcs, RmRpc("RMDIR", Top.fh, Top.name, st, <<>>))
    /\ rm_stack' = SetTop([Top EXCEPT !.pc = "return",
                                      !.ret = IF st = NFS3_OK THEN Top.ret ELSE FALSE])
    /\ UNCHANGED <<rm_pc, rm_ret, rm_exc, dirVars>>

\* A call returns, to the loop of the call that made it or to the user.
RmReturn ==
    /\ rm_pc = "run"
    /\ Top.pc = "return"
    /\ IF Len(rm_stack) = 1
       THEN /\ rm_pc' = "done"
            /\ rm_ret' = Top.ret
            /\ rm_stack' = <<>>
       ELSE \E parent \in {rm_stack[Len(rm_stack) - 1]} :
              /\ rm_stack' = Append(SubSeq(rm_stack, 1, Len(rm_stack) - 2),
                                    [parent EXCEPT !.pc = "entries",
                                                   !.ret = IF Top.ret THEN parent.ret ELSE FALSE])
              /\ UNCHANGED <<rm_pc, rm_ret>>
    /\ UNCHANGED <<rm_rpcs, rm_exc, dirVars>>

\* The user has the result or the exception.
RmDone ==
    /\ rm_pc \in {"done", "raised"}
    /\ rm_pc' = "idle"
    /\ rm_stack' = <<>>
    /\ rm_rpcs' = <<>>
    /\ rm_ret' = FALSE
    /\ rm_exc' = ""
    /\ IF rd_pc = "idle" THEN UNCHANGED dirVars ELSE DirDone

\* Inputs: the directory "d" under "/p"; listings of the skipped names and
\* of the file "a".
RmEntries == {Entry(<<".">>, 1), Entry(<<".", ".">>, 2),
              Entry(<<".", "s", "n", "a", "p", "s", "h", "o", "t">>, 3), Entry(<<"a">>, 4)}
RmPages ==
    {OkPage(es, eof, Zeros(NFS3_COOKIEVERFSIZE)) : es \in EntryLists(RmEntries), eof \in BOOLEAN}
        \cup {FailPage(NFS3ERR_NOENT)}
RemoveStatuses == {NFS3_OK, NFS3ERR_NOENT, NFS3ERR_ACCES, NFS3ERR_ISDIR}
RmdirStatuses == {NFS3_OK, NFS3ERR_NOTEMPTY}

\* -------------------------------------------------------- lookup or create
\* NFS3_Client.lookup_create (nfs3_util.py).  A handle with data 0 is the
\* empty handle.
VARIABLES lc_pc, lc_parentdirfh, lc_aname, lc_prevfh, lc_do_create, lc_rpcs, lc_ret

lcVars == <<lc_pc, lc_parentdirfh, lc_aname, lc_prevfh, lc_do_create, lc_rpcs, lc_ret>>

\* nfs_fh3.get_handle: return self if self._buf else None
get_handle(h) == IF h.type = "NoneType" \/ h.data = 0 THEN NoHandle ELSE h

\* post_op_fh3.handle: an nfs_fh3 when handle_follows, else None.
post_op_fh3(handle_follows, h) == [handle_follows |-> handle_follows,
                                   handle |-> IF handle_follows THEN h ELSE NoHandle]

\* A bug: the previous handle is never compared.
HandleChangedNever(prevfh, handle) == FALSE

\* (prevfh is not None) and (handle != prevfh)
HandleChanged(prevfh, handle) == prevfh # NoHandle /\ ~handle_eq(handle, prevfh)

LcRet(ok, h) == [ok |-> ok, handle |-> h]
\* A logged RPC: the directory and name asked for, the mode of a MKDIR (0 for
\* a LOOKUP), the status and the handle that came back.
LcRpc(proc, dir, nm, mode, st, obj) ==
    [proc |-> proc, dir |-> dir, name |-> nm, mode |-> mode, status |-> st, obj |-> obj]

LcIdle ==
    /\ lc_pc = "idle"
    /\ lc_parentdirfh = NoHandle
    /\ lc_aname = <<>>
    /\ lc_prevfh = NoHandle
    /\ lc_do_create = FALSE
    /\ lc_rpcs = <<>>
    /\ lc_ret = LcRet(FALSE, NoHandle)

\* lookup_create(tag, parentdirfh, aname, prevfh, do_create) up to its LOOKUP.
LcCall(parentdirfh, aname, prevfh, do_create) ==
    /\ lc_pc = "idle"
    /\ lc_pc' = "lookup"
    /\ lc_parentdirfh' = parentdirfh
    /\ lc_aname' = aname
    /\ lc_prevfh' = prevfh
    /\ lc_do_create' = do_create
    /\ lc_rpcs' = <<>>
    /\ lc_ret' = LcRet(FALSE, NoHandle)

\* The LOOKUP, answered with status st and, when OK, the handle h.
LcLookup(st, h) ==
    /\ lc_pc = "lookup"
    /\ lc_rpcs' = Append(lc_rpcs, LcRpc("LOOKUP", lc_parentdirfh, lc_aname, 0, st,
                                       post_op_fh3(st = NFS3_OK, h)))
    /\ IF st = NFS3_OK
       THEN /\ lc_pc' = "done"
            /\ lc_ret' = IF HandleChanged(lc_prevfh, get_handle(h))
                         THEN LcRet(FALSE, NoHandle)
                         ELSE LcRet(TRUE, get_handle(h))
       ELSE IF st = NFS3ERR_NOENT /\ lc_do_create
       THEN lc_pc' = "mkdir" /\ UNCHANGED lc_ret
       ELSE lc_pc' = "done" /\ lc_ret' = LcRet(FALSE, NoHandle)
    /\ UNCHANGED <<lc_parentdirfh, lc_aname, lc_prevfh, lc_do_create>>

\* The MKDIR, answered with status st and, when OK, the post_op_fh3 obj.
LcMkdir(st, obj) ==
    /\ lc_pc = "mkdir"
    /\ lc_rpcs' = Append(lc_rpcs, LcRpc("MKDIR", lc_parentdirfh, lc_aname, 511, st,
                                       IF st = NFS3_OK THEN obj ELSE post_op_fh3(FALSE, NoHandle)))
    /\ IF st # NFS3_OK
       THEN lc_pc' = "done" /\ lc_ret' = LcRet(FALSE, NoHandle)
       ELSE IF ~obj.handle_follows
       THEN lc_pc' = "lookup2" /\ UNCHANGED lc_ret
       ELSE lc_pc' = "done" /\ lc_ret' = LcRet(TRUE, obj.handle)
    /\ UNCHANGED <<lc_parentdirfh, lc_aname, lc_prevfh, lc_do_create>>

\* The LOOKUP after a MKDIR that returned no handle.
LcLookupAgain(st, h) ==
    /\ lc_pc = "lookup2"
    /\ lc_rpcs' = Append(lc_rpcs, LcRpc("LOOKUP", lc_parentdirfh, lc_aname, 0, st,
                                       post_op_fh3(st = NFS3_OK, h)))
    /\ lc_pc' = "done"
    /\ lc_ret' = IF st = NFS3_OK THEN LcRet(TRUE, get_handle(h)) ELSE LcRet(FALSE, NoHandle)
    /\ UNCHANGED <<lc_parentdirfh, lc_aname, lc_prevfh, lc_do_create>>

\* The caller has the pair.
LcDone ==
    /\ lc_pc = "done"
    /\ lc_pc' = "idle"
    /\ lc_parentdirfh' = NoHandle
    /\ lc_aname' = <<>>
    /\ lc_prevfh' = NoHandle
    /\ lc_do_create' = FALSE
    /\ lc_rpcs' = <<>>
    /\ lc_ret' = LcRet(FALSE, NoHandle)

\* Inputs: the handles a server may issue, the empty one included.
WireHandles == {Handle("nfs_fh3", d) : d \in 0..MaxHandle}
LcStatuses == {NFS3_OK, NFS3ERR_NOENT, NFS3ERR_ACCES, NFS3ERR_JUKEBOX}

\* ------------------------------------------------------------ the flusher
\* flush_file.py: FileFlushClient and the worker pool.  Every variable
\* indexed by a worker belongs to that worker's thread and client.  fl_now[w]
\* is time.monotonic() as worker w sees it, counted in ticks of
\* RECHECK_SECONDS from the moment it took up its work.
VARIABLES fl_pc, fl_file, fl_comps, fl_handle, fl_timeout, fl_now, fl_endtime,
          fl_rpcs, fl_ret, error_count, fl_main, fl_args, fl_queue, fl_unfinished,
          fl_outcomes, fl_exit

flushVars == <<fl_pc, fl_file, fl_comps, fl_handle, fl_timeout, fl_now, fl_endtime,
               fl_rpcs, fl_ret, error_count, fl_main, fl_args, fl_queue, fl_unfinished,
               fl_outcomes, fl_exit>>

NumWorkers == 2
Workers == 1..NumWorkers

NFS3ERR_NOT_SYNC == 10002

\* The magic numbers of the COMMIT calls, as 16-bit groups, the most
\* significant first.
MAGIC_OFFSET == <<4660, 43981, 57005, 57005>>
ASYNC_FLUSH_COUNT == <<44522, 56294>>
FLUSH_STATUS_COUNT == <<44522, 56293>>

\* commit_status == nfs3.nfsstat3_...: a str status (an RPC-level failure) is
\* compared by nfsstat3.__eq__, reflected; an enum status by its own __eq__.
status_is(commit_status, v) ==
    IF commit_status.type = "str" THEN FALSE
    ELSE annotated_enum_eq(commit_status, nfsstat3(v)).val

\* A bug: polling gives up while the flush is still in progress.
still_flushing_never(commit_status) == FALSE

\* commit_status == nfs3.nfsstat3_NFS3ERR_NOT_SYNC in the polling loop
still_flushing(commit_status) == status_is(commit_status, NFS3ERR_NOT_SYNC)

\* if timeout != 0: if time.monotonic() > endtime
deadline_passed(timeout, monotonic, endtime) == timeout # 0 /\ monotonic > endtime

\* A COMMIT as logged: the magic numbers sent and the result; after is the
\* post-operation attributes of the result (present or not).
Commit(offset, count, status, after) ==
    [proc |-> "COMMIT", offset |-> offset, count |-> count, status |-> status, after |-> after]
FlLookupRpc(status) ==
    [proc |-> "LOOKUP", offset |-> <<>>, count |-> <<>>, status |-> status, after |-> FALSE]

NoFile == <<"None">>

\* The COMMITs a client has sent since commit_and_wait was called.
Commits(w) == SelectSeq(fl_rpcs[w], LAMBDA r : r.proc = "COMMIT")

FlushIdle ==
    /\ fl_pc = [w \in Workers |-> "idle"]
    /\ fl_file = [w \in Workers |-> NoFile]
    /\ fl_comps = [w \in Workers |-> <<>>]
    /\ fl_handle = [w \in Workers |-> NoHandle]
    /\ fl_timeout = [w \in Workers |-> 0]
    /\ fl_now = [w \in Workers |-> 0]
    /\ fl_endtime = [w \in Workers |-> 0]
    /\ fl_rpcs = [w \in Workers |-> <<>>]
    /\ fl_ret = [w \in Workers |-> "None"]
    /\ error_count = 0
    /\ fl_main = "idle"
    /\ fl_args = 0
    /\ fl_queue = <<>>
    /\ fl_unfinished = 0
    /\ fl_outcomes = <<>>
    /\ fl_exit = 0

poolVars == <<fl_main, fl_args, fl_queue, fl_unfinished, fl_exit>>

\* incr_err_count: the workers share output_lock, so the addition is atomic.
incr_err_count == error_count' = error_count + 1

MaxTimeout == 2

\* The polls of one call that are followed: enough for the longest timeout
\* to run out.
MaxPolls == MaxTimeout + 1
MaxFiles == 2

\* commit_and_wait(testfile_handle, timeout) called on an idle client.
FlCommitAndWait(w, testfile_handle, timeout) ==
    /\ fl_main = "idle"
    /\ fl_pc[w] = "idle"
    /\ fl_pc' = [fl_pc EXCEPT ![w] = "async"]
    /\ fl_handle' = [fl_handle EXCEPT ![w] = testfile_handle]
    /\ fl_timeout' = [fl_timeout EXCEPT ![w] = timeout]
    /\ fl_now' = [fl_now EXCEPT ![w] = 0]
    /\ fl_rpcs' = [fl_rpcs EXCEPT ![w] = <<>>]
    /\ fl_ret' = [fl_ret EXCEPT ![w] = "None"]
    /\ fl_outcomes' = <<>>
    /\ UNCHANGED <<fl_file, fl_comps, fl_endtime, error_count, poolVars>>

\* process_files_parallel starts the workers; args.timeout is timeout.
FlStart(timeout) ==
    /\ fl_main = "idle"
    /\ \A w \in Workers : fl_pc[w] = "idle"
    /\ fl_main' = "reading"
    /\ fl_args' = timeout
    /\ fl_outcomes' = <<>>
    /\ UNCHANGED <<fl_pc, fl_file, fl_comps, fl_handle, fl_timeout, fl_now, fl_endtime,
                   fl_rpcs, fl_ret, error_count, fl_queue, fl_unfinished, fl_exit>>

\* for line in sys.stdin: q.put(filepath)
FlPut(filepath) ==
    /\ fl_main = "reading"
    /\ fl_unfinished + Len(fl_outcomes) < MaxFiles
    /\ fl_queue' = Append(fl_queue, filepath)
    /\ fl_unfinished' = fl_unfinished + 1
    /\ UNCHANGED <<fl_pc, fl_file, fl_comps, fl_handle, fl_timeout, fl_now, fl_endtime,
                   fl_rpcs, fl_ret, error_count, fl_main, fl_args, fl_outcomes, fl_exit>>

\* The end of standard input: q.join() begins.
FlEof ==
    /\ fl_main = "reading"
    /\ fl_main' = "joining"
    /\ UNCHANGED <<fl_pc, fl_file, fl_comps, fl_handle, fl_timeout, fl_now, fl_endtime,
                   fl_rpcs, fl_ret, error_count, fl_args, fl_queue, fl_unfinished,
                   fl_outcomes, fl_exit>>

\* q.join() returns; the main thread looks at error_count and exits.
FlJoin ==
    /\ fl_main = "joining"
    /\ fl_unfinished = 0
    /\ fl_main' = "exited"
    /\ fl_exit' = IF error_count # 0 THEN -1 ELSE 0
    /\ UNCHANGED <<fl_pc, fl_file, fl_comps, fl_handle, fl_timeout, fl_now, fl_endtime,
                   fl_rpcs, fl_ret, error_count, fl_args, fl_queue, fl_unfinished,
                   fl_outcomes>>

\* The next run of the program.
FlExit ==
    /\ fl_main = "exited"
    /\ fl_main' = "idle"
    /\ fl_args' = 0
    /\ fl_exit' = 0
    /\ fl_outcomes' = <<>>
    /\ error_count' = 0
    /\ UNCHANGED <<fl_pc, fl_file, fl_comps, fl_handle, fl_timeout, fl_now, fl_endtime,
                   fl_rpcs, fl_ret, fl_queue, fl_unfinished>>

\* worker: FileFlushClient(...) raises in init_nfs3_client (the mount is
\* refused, or the NULL call of the NFS client fails); the thread ends before
\* its first q.get().
FlSetupFailed(w) ==
    /\ fl_main = "reading"
    /\ fl_pc[w] = "idle"
    /\ fl_unfinished = 0
    /\ fl_outcomes = <<>>
    /\ fl_pc' = [fl_pc EXCEPT ![w] = "ValueError"]
    /\ UNCHANGED <<fl_file, fl_comps, fl_handle, fl_timeout, fl_now, fl_endtime, fl_rpcs,
                   fl_ret, error_count, fl_outcomes, poolVars>>

\* A file is finished with the outcome o: q.task_done().
FlTaskDone(w, o) ==
    /\ fl_pc' = [fl_pc EXCEPT ![w] = "idle"]
    /\ fl_file' = [fl_file EXCEPT ![w] = NoFile]
    /\ fl_comps' = [fl_comps EXCEPT ![w] = <<>>]
    /\ fl_handle' = [fl_handle EXCEPT ![w] = NoHandle]
    /\ fl_timeout' = [fl_timeout EXCEPT ![w] = 0]
    /\ fl_now' = [fl_now EXCEPT ![w] = 0]
    /\ fl_endtime' = [fl_endtime EXCEPT ![w] = 0]
    /\ fl_rpcs' = [fl_rpcs EXCEPT ![w] = <<>>]
    /\ fl_ret' = [fl_ret EXCEPT ![w] = "None"]
    /\ fl_outcomes' = Append(fl_outcomes, <<fl_file[w], o>>)
    /\ fl_unfinished' = fl_unfinished - 1

\* filepath = q.get(); commit_file_and_wait up to the first LOOKUP of
\* get_handle_for_path.
FlTake(w) ==
    /\ fl_main \in {"reading", "joining"}
    /\ fl_pc[w] = "idle"
    /\ fl_queue # <<>>
    /\ fl_queue' = Tail(fl_queue)
    /\ \E filepath \in {Head(fl_queue)} :
          IF filepath = <<>> \/ filepath[1] # sep
          THEN /\ incr_err_count
               /\ fl_outcomes' = Append(fl_outcomes, <<filepath, "lookup">>)
               /\ fl_unfinished' = fl_unfinished - 1
               /\ UNCHANGED <<fl_pc, fl_file, fl_comps, fl_handle, fl_timeout, fl_now,
                              fl_endtime, fl_rpcs, fl_ret>>
          ELSE /\ fl_pc' = [fl_pc EXCEPT ![w] = "lookup"]
               /\ fl_file' = [fl_file EXCEPT ![w] = filepath]
               /\ fl_comps' = [fl_comps EXCEPT ![w] = Tail(path_split(filepath))]
               /\ fl_handle' = [fl_handle EXCEPT ![w] = Handle("fhandle3", 1)]
               /\ fl_timeout' = [fl_timeout EXCEPT ![w] = fl_args]
               /\ fl_now' = [fl_now EXCEPT ![w] = 0]
               /\ UNCHANGED <<fl_endtime, fl_rpcs, fl_ret, error_count, fl_outcomes,
                              fl_unfinished>>
    /\ UNCHANGED <<fl_main, fl_args, fl_exit>>

\* One iteration of "for part in path_parts[1:]": self.lookup(handle, part),
\* answered with status st and handle h; after the last part, commit_and_wait
\* is called.
FlLookup(w, st, h) ==
    /\ fl_pc[w] = "lookup"
    /\ IF fl_comps[w] = <<>>
       THEN /\ fl_pc' = [fl_pc EXCEPT ![w] = "async"]
            /\ UNCHANGED <<fl_file, fl_comps, fl_handle, fl_timeout, fl_now, fl_endtime,
                           fl_rpcs, fl_ret, error_count, fl_outcomes, fl_unfinished>>
       ELSE IF st # NFS3_OK \/ get_handle(h) = NoHandle
       THEN /\ incr_err_count
            /\ FlTaskDone(w, "lookup")
       ELSE /\ fl_handle' = [fl_handle EXCEPT ![w] = h]
            /\ fl_comps' = [fl_comps EXCEPT ![w] = Tail(fl_comps[w])]
            /\ fl_rpcs' = [fl_rpcs EXCEPT ![w] = Append(fl_rpcs[w], FlLookupRpc(nfsstat3(st)))]
            /\ UNCHANGED <<fl_pc, fl_file, fl_timeout, fl_now, fl_endtime, fl_ret,
                           error_count, fl_outcomes, fl_unfinished>>
    /\ UNCHANGED <<fl_main, fl_args, fl_queue, fl_exit>>

\* commit_and_wait up to the polling loop: async_commit, answered with status
\* after d ticks, and the first lines of wait_for_flush_completion.
FlAsync(w, status, d) ==
    /\ fl_pc[w] = "async"
    /\ fl_rpcs' = [fl_rpcs EXCEPT
                     ![w] = Append(fl_rpcs[w], Commit(MAGIC_OFFSET, ASYNC_FLUSH_COUNT, status, FALSE))]
    /\ fl_now' = [fl_now EXCEPT ![w] = fl_now[w] + d]
    /\ IF ~(status_is(status, NFS3ERR_NOT_SYNC) \/ status_is(status, NFS3_OK))
       THEN /\ incr_err_count
            /\ fl_pc' = [fl_pc EXCEPT ![w] = "done"]
            /\ fl_ret' = [fl_ret EXCEPT ![w] = "async_error"]
            /\ UNCHANGED fl_endtime
       ELSE /\ fl_pc' = [fl_pc EXCEPT ![w] = "poll"]
            /\ fl_endtime' = [fl_endtime EXCEPT
                                ![w] = IF fl_timeout[w] # 0 THEN fl_now[w] + d + fl_timeout[w]
                                       ELSE 0]
            /\ UNCHANGED <<fl_ret, error_count>>
    /\ UNCHANGED <<fl_file, fl_comps, fl_handle, fl_timeout, fl_outcomes, poolVars>>

\* One iteration of "while(True)" in wait_for_flush_completion: the deadline,
\* then check_commit_status answered after d ticks with status (and with or
\* without attributes), then the sleep.
FlPoll(w, status, after, d) ==
    /\ fl_pc[w] = "poll"
    /\ IF deadline_passed(fl_timeout[w], fl_now[w], fl_endtime[w])
       THEN /\ fl_pc' = [fl_pc EXCEPT ![w] = "done"]
            /\ fl_ret' = [fl_ret EXCEPT ![w] = "timeout"]
            /\ UNCHANGED <<fl_rpcs, fl_now, error_count>>
       ELSE /\ Len(Commits(w)) <= MaxPolls
            /\ fl_rpcs' = [fl_rpcs EXCEPT
                             ![w] = Append(fl_rpcs[w],
                                           Commit(MAGIC_OFFSET, FLUSH_STATUS_COUNT, status, after))]
            /\ IF status_is(status, NFS3_OK)
               THEN /\ fl_pc' = [fl_pc EXCEPT ![w] = "done"]
                    /\ fl_ret' = [fl_ret EXCEPT ![w] = "commit_res"]
                    /\ fl_now' = [fl_now EXCEPT ![w] = fl_now[w] + d]
                    /\ UNCHANGED error_count
               ELSE IF still_flushing(status)
               THEN /\ fl_now' = [fl_now EXCEPT ![w] = fl_now[w] + d + 1]
                    /\ UNCHANGED <<fl_pc, fl_ret, error_count>>
               ELSE /\ incr_err_count
                    /\ fl_pc' = [fl_pc EXCEPT ![w] = "done"]
                    /\ fl_ret' = [fl_ret EXCEPT
                                    ![w] = IF status_is(status, NFS3ERR_NOTEMPTY)
                                           THEN "notempty" ELSE "other"]
                    /\ fl_now' = [fl_now EXCEPT ![w] = fl_now[w] + d]
    /\ UNCHANGED <<fl_file, fl_comps, fl_handle, fl_timeout, fl_endtime, fl_outcomes,
                   poolVars>>

\* commit_and_wait has returned: to its caller, or to commit_file_and_wait,
\* which logs the result (the mtime of the attributes after a flush) and
\* marks the task done.
FlFinish(w) ==
    /\ fl_pc[w] = "done"
    /\ IF fl_file[w] = NoFile
       THEN /\ fl_pc' = [fl_pc EXCEPT ![w] = "idle"]
            /\ fl_handle' = [fl_handle EXCEPT ![w] = NoHandle]
            /\ fl_timeout' = [fl_timeout EXCEPT ![w] = 0]
            /\ fl_now' = [fl_now EXCEPT ![w] = 0]
            /\ fl_endtime' = [fl_endtime EXCEPT ![w] = 0]
            /\ fl_rpcs' = [fl_rpcs EXCEPT ![w] = <<>>]
            /\ fl_ret' = [fl_ret EXCEPT ![w] = "None"]
            /\ error_count' = 0
            /\ UNCHANGED <<fl_file, fl_comps, fl_outcomes, fl_unfinished>>
       ELSE IF fl_ret[w] = "commit_res" /\ ~fl_rpcs[w][Len(fl_rpcs[w])].after
       THEN /\ fl_pc' = [fl_pc EXCEPT ![w] = "AttributeError"]
            /\ UNCHANGED <<fl_file, fl_comps, fl_handle, fl_timeout, fl_now, fl_endtime,
                           fl_rpcs, fl_ret, error_count, fl_outcomes, fl_unfinished>>
       ELSE /\ FlTaskDone(w, IF fl_ret[w] = "commit_res" THEN "flushed" ELSE fl_ret[w])
            /\ UNCHANGED error_count
    /\ UNCHANGED <<fl_main, fl_args, fl_queue, fl_exit>>

\* Inputs: the statuses a COMMIT may come back with (of the server, or an
\* RPC-level failure), RPC durations in ticks, paths to flush.
CommitStatuses ==
    {nfsstat3(NFS3_OK), nfsstat3(NFS3ERR_NOT_SYNC), nfsstat3(NFS3ERR_NOTEMPTY),
     nfsstat3(NFS3ERR_ACCES), StatusStr("RPCTimeout")}
Durations == {0, 1}
FlushPaths == {<<"a">>, <<sep, "a">>, <<sep, "a", sep, "b">>}

\* ---------------------------------------------------------- record marking
\* _RawTCPClient._sendrecord, _recvrecord, _recvfrag, _recvwrapper
\* (rpc_rfc1057.py).  fr_wire is what the peer has sent and the client has not
\* yet read; every recv is handed at most the bytes of one TCP chunk.
VARIABLES fr_pc, fr_wire, fr_frags, fr_n, fr_last, fr_recordbuf, fr_exc, fr_sent,
          fr_need_reconnect

frameVars == <<fr_pc, fr_wire, fr_frags, fr_n, fr_last, fr_recordbuf, fr_exc, fr_sent,
               fr_need_reconnect>>

Min(a, b) == IF a <= b THEN a ELSE b

\* struct.pack('!I', header) of a header word with the length n in the low 31
\* bits and the last-fragment bit on top (0x80000000).
pack_header(n, lastfrag) ==
    <<(IF lastfrag THEN 128 ELSE 0) + ((n \div 16777216) % 128)>> \o Tail(pack_I(n))

\* x = struct.unpack('!I', header)[0]; last = ((x & 0x80000000) != 0)
header_last(header) == header[1] >= 128

\* n = int(x & 0x7fffffff)
header_n(header) == unpack_I(<<header[1] % 128>> \o Tail(header))

\* self.sock.recv(bufsize) in _recvwrapper: at most bufsize bytes, and no more
\* than the chunk that has arrived.
recv(wire, bufsize, chunk) == SubSeq(wire, 1, Min(bufsize, Min(chunk, Len(wire))))

\* What a peer writes for a record of the fragments frags.
RECURSIVE peer_record(_)
peer_record(frags) ==
    IF frags = <<>> THEN <<>>
    ELSE pack_header(Len(Head(frags)), Len(frags) = 1) \o Head(frags) \o peer_record(Tail(frags))

\* The concatenation of the fragment payloads.
RECURSIVE payloads(_)
payloads(frags) == IF frags = <<>> THEN <<>> ELSE Head(frags) \o payloads(Tail(frags))

FrameIdle ==
    /\ fr_pc = "idle"
    /\ fr_wire = <<>>
    /\ fr_frags = <<>>
    /\ fr_n = 0
    /\ fr_last = FALSE
    /\ fr_recordbuf = <<>>
    /\ fr_exc = ""
    /\ fr_sent = <<>>
    /\ fr_need_reconnect = FALSE

\* _recvrecord is called while the peer sends a record in the fragments frags.
FrRecvRecord(frags) ==
    /\ fr_pc = "idle"
    /\ fr_pc' = "header"
    /\ fr_wire' = peer_record(frags)
    /\ fr_frags' = frags
    /\ fr_recordbuf' = <<>>
    /\ fr_last' = FALSE
    /\ UNCHANGED <<fr_n, fr_exc, fr_sent, fr_need_reconnect>>

\* self.sock.send(record): the number of bytes the socket takes, which is what
\* the connection accepts and no more than the record.
send(record, accepted) == Min(accepted, Len(record))

\* _sendrecord of a stream holding four reserved bytes and payload, the result
\* of the one self.sock.send(record) dropped; fr_sent is the record handed to
\* send, fr_wire what goes to the peer, a framer that reads it with
\* _recvrecord.
FrSendRecord(payload, accepted) ==
    /\ fr_pc = "idle"
    /\ \E record_header \in {Len(Zeros(4) \o payload) - 4} :
          \E record \in {pack_header(record_header, TRUE) \o payload} :
             /\ fr_sent' = record
             /\ fr_wire' = SubSeq(record, 1, send(record, accepted))
    /\ fr_frags' = <<payload>>
    /\ fr_pc' = "header"
    /\ fr_recordbuf' = <<>>
    /\ fr_last' = FALSE
    /\ UNCHANGED <<fr_n, fr_exc, fr_need_reconnect>>

\* The end of a fragment: _recvfrag returns last to the loop of _recvrecord.
fr_after(lastfrag) == IF lastfrag THEN "returned" ELSE "header"

\* _recvfrag up to its loop: the header, read with one recv while chunk bytes
\* have arrived.
FrHeader(chunk) ==
    /\ fr_pc = "header"
    /\ \E header \in {recv(fr_wire, 4, chunk)} :
          /\ fr_wire' = SubSeq(fr_wire, Len(header) + 1, Len(fr_wire))
          /\ IF Len(header) < 4
             THEN /\ fr_need_reconnect' = TRUE
                  /\ fr_exc' = "EOFError"
                  /\ fr_pc' = "raised"
                  /\ UNCHANGED <<fr_n, fr_last>>
             ELSE /\ fr_last' = header_last(header)
                  /\ fr_n' = header_n(header)
                  /\ fr_pc' = IF header_n(header) > 0 THEN "body"
                              ELSE fr_after(header_last(header))
                  /\ UNCHANGED <<fr_need_reconnect, fr_exc>>
    /\ UNCHANGED <<fr_frags, fr_recordbuf, fr_sent>>

\* One iteration of "while n > 0" in _recvfrag.
FrBody(chunk) ==
    /\ fr_pc = "body"
    /\ \E buf \in {recv(fr_wire, fr_n, chunk)} :
          /\ fr_wire' = SubSeq(fr_wire, Len(buf) + 1, Len(fr_wire))
          /\ IF buf = <<>>
             THEN /\ fr_need_reconnect' = TRUE
                  /\ fr_exc' = "EOFError"
                  /\ fr_pc' = "raised"
                  /\ UNCHANGED <<fr_n, fr_recordbuf>>
             ELSE /\ fr_n' = fr_n - Len(buf)
                  /\ fr_recordbuf' = fr_recordbuf \o buf
                  /\ fr_pc' = IF fr_n - Len(buf) > 0 THEN "body" ELSE fr_after(fr_last)
                  /\ UNCHANGED <<fr_need_reconnect, fr_exc>>
    /\ UNCHANGED <<fr_frags, fr_last, fr_sent>>

\* The caller has the record or the exception.
FrDone ==
    /\ fr_pc \in {"returned", "raised"}
    /\ fr_pc' = "idle"
    /\ fr_wire' = <<>>
    /\ fr_frags' = <<>>
    /\ fr_n' = 0
    /\ fr_last' = FALSE
    /\ fr_recordbuf' = <<>>
    /\ fr_exc' = ""
    /\ fr_sent' = <<>>
    /\ fr_need_reconnect' = FALSE

\* Inputs: records of up to MaxFrags fragments of up to MaxFragLen bytes, and
\* TCP chunks of one byte and more.
MaxFrags == 2
MaxFragLen == 2
FragPayloads == UNION {[1..n -> {7, 200}] : n \in 0..MaxFragLen}
FragLists == UNION {[1..k -> FragPayloads] : k \in 1..MaxFrags}
Chunks == 1..4

\* ------------------------------------------------- replies on a connection
\* What is on the connection of one client over consecutive calls of the
\* transport make_call (rpc_rfc1057.py: make_call, _make_call_internal,
\* _sendrecord, _recvrecord, _recvfrag, _recvwrapper).  A reply record is read
\* with two recvs (header, payload); a unit <<c, k>> is the k-th of the two
\* parts of a reply to call c.  Calls allocate their own XIDs, so replies to
\* different calls carry different XIDs and the attempts of one call the same.
VARIABLES cn_pc, cn_call, cn_tries, cn_callTries, cn_need_reconnect, cn_pending, cn_unread,
          cn_got, cn_reads, cn_stale, cn_result

connVars == <<cn_pc, cn_call, cn_tries, cn_callTries, cn_need_reconnect, cn_pending,
              cn_unread, cn_got, cn_reads, cn_stale, cn_result>>

Reply(c) == <<<<c, 1>>, <<c, 2>>>>

ConnIdle ==
    /\ cn_pc = "idle"
    /\ cn_call = 0
    /\ cn_tries = 0
    /\ cn_callTries = 0
    /\ cn_need_reconnect = FALSE
    /\ cn_pending = <<>>
    /\ cn_unread = <<>>
    /\ cn_got = <<>>
    /\ cn_reads = {}
    /\ cn_stale = FALSE
    /\ cn_result = "None"

MaxCalls == 2

\* make_call(..., callTries=ct) on the connected client, up to the loop.
CnMakeCall(ct) ==
    /\ cn_pc = "idle"
    /\ cn_call < MaxCalls
    /\ cn_call' = cn_call + 1
    /\ cn_callTries' = ct
    /\ cn_tries' = 0
    /\ cn_pc' = "attempt"
    /\ cn_got' = <<>>
    /\ cn_result' = "None"
    /\ UNCHANGED <<cn_need_reconnect, cn_pending, cn_unread, cn_reads, cn_stale>>

\* need_reconnect after an RPCTimeout: _recvwrapper and _sendrecord set it
\* when the socket timed out, not when they find the deadline passed before
\* they use the socket; the handler of make_call leaves it alone.
timeout_marks(by_socket, nr) == by_socket \/ nr

\* The handlers of make_call after an exception of the attempt: retry, or
\* return the failure.
CnHandle(status) ==
    IF cn_tries < cn_callTries
    THEN cn_pc' = "attempt" /\ UNCHANGED cn_result
    ELSE cn_pc' = "done" /\ cn_result' = status

\* One iteration of the loop up to _recvrecord: reconnect if need_reconnect,
\* then _sendrecord.  deadline: the deadline has passed when _sendrecord looks.
CnSend(deadline) ==
    /\ cn_pc = "attempt"
    /\ cn_tries < cn_callTries
    /\ cn_tries' = cn_tries + 1
    /\ cn_got' = <<>>
    /\ \E conn \in {IF cn_need_reconnect THEN [pending |-> <<>>, unread |-> <<>>]
                    ELSE [pending |-> cn_pending, unread |-> cn_unread]} :
          /\ cn_unread' = conn.unread
          /\ IF deadline
             THEN /\ cn_pending' = conn.pending
                  /\ cn_need_reconnect' = timeout_marks(FALSE, FALSE)
                  /\ IF cn_tries + 1 < cn_callTries
                     THEN cn_pc' = "attempt" /\ UNCHANGED cn_result
                     ELSE cn_pc' = "done" /\ cn_result' = "RPCTimeout"
                  /\ UNCHANGED cn_stale
             ELSE /\ cn_pending' = Append(conn.pending, cn_call)
                  /\ cn_need_reconnect' = FALSE
                  /\ cn_pc' = "recv"
                  /\ cn_stale' = (\/ cn_stale
                                  \/ \E i \in 1..Len(conn.pending) : conn.pending[i] # cn_call
                                  \/ \E i \in 1..Len(conn.unread) : conn.unread[i][1] # cn_call)
                  /\ UNCHANGED cn_result
    /\ UNCHANGED <<cn_call, cn_callTries, cn_reads>>

\* The server answers the oldest request it has on the connection.
CnServerReply ==
    /\ cn_pending # <<>>
    /\ Len(cn_unread) < 4
    /\ cn_unread' = cn_unread \o Reply(Head(cn_pending))
    /\ cn_pending' = Tail(cn_pending)
    /\ UNCHANGED <<cn_pc, cn_call, cn_tries, cn_callTries, cn_need_reconnect, cn_got,
                   cn_reads, cn_stale, cn_result>>

\* One _recvwrapper of _recvrecord.  ev = "deadline": the deadline has passed
\* when it looks; "timeout": recv times out (nothing has arrived); "data": recv
\* returns the next part on the connection.  After the second part the record
\* is taken apart by _make_call_internal.
CnRecv(ev) ==
    /\ cn_pc = "recv"
    /\ ev = "timeout" => cn_unread = <<>>
    /\ ev = "data" => cn_unread # <<>>
    /\ IF ev \in {"deadline", "timeout"}
       THEN /\ cn_need_reconnect' = timeout_marks(ev = "timeout", cn_need_reconnect)
            /\ CnHandle("RPCTimeout")
            /\ UNCHANGED <<cn_unread, cn_got, cn_reads>>
       ELSE /\ cn_unread' = Tail(cn_unread)
            /\ cn_reads' = cn_reads \cup {<<cn_call, Head(cn_unread)[1]>>}
            /\ \E record \in {Append(cn_got, Head(cn_unread))} :
                  IF Len(record) < 2
                  THEN /\ cn_got' = record
                       /\ UNCHANGED <<cn_pc, cn_need_reconnect, cn_result>>
                  ELSE /\ cn_got' = <<>>
                       /\ IF record = Reply(cn_call)
                          THEN /\ cn_pc' = "done"
                               /\ cn_result' = "OK"
                               /\ UNCHANGED cn_need_reconnect
                          ELSE IF \E c \in 1..MaxCalls : record = Reply(c)
                          THEN /\ cn_pc' = "done"
                               /\ cn_result' = "wrong xid in reply"
                               /\ cn_need_reconnect' = TRUE
                          ELSE \* not a record: the parts of two replies
                               /\ cn_need_reconnect' = TRUE
                               /\ CnHandle("RPCFailed")
    /\ UNCHANGED <<cn_call, cn_tries, cn_callTries, cn_pending, cn_stale>>

\* The caller has the result.
CnDone ==
    /\ cn_pc = "done"
    /\ cn_pc' = "idle"
    /\ UNCHANGED <<cn_call, cn_tries, cn_callTries, cn_need_reconnect, cn_pending, cn_unread,
                   cn_got, cn_reads, cn_stale, cn_result>>

\* The client is dropped and another is constructed and connected.
CnNewClient ==
    /\ cn_pc = "idle"
    /\ cn_call = MaxCalls
    /\ cn_call' = 0
    /\ cn_tries' = 0
    /\ cn_callTries' = 0
    /\ cn_need_reconnect' = FALSE
    /\ cn_pending' = <<>>
    /\ cn_unread' = <<>>
    /\ cn_got' = <<>>
    /\ cn_reads' = {}
    /\ cn_stale' = FALSE
    /\ cn_result' = "None"
    /\ UNCHANGED cn_pc

\* ------------------------------------------------------------- truthiness
\* The class attribute _SUCCESSVAL: 0 in annotated_enum, None in these
\* subclasses.
_SUCCESSVAL(cls) ==
    IF cls \in {"reject_stat", "Auth_stat", "ftype3", "stable_how", "createmode3", "time_how"}
    THEN None ELSE 0

\* annotated_enum.__bool__
annotated_enum_bool(self) ==
    IF _SUCCESSVAL(self.type) = None THEN FALSE ELSE self.val # _SUCCESSVAL(self.type)

\* ONCRPCres.__bool__: bool(self.status), the status being a str, an int or an
\* annotated_enum.
ONCRPCres_bool(self) ==
    IF self.status.type = "str" THEN self.status.text # ""
    ELSE IF self.status.type = "int" THEN self.status.val # 0
    ELSE annotated_enum_bool(self.status)

\* ------------------------------------------------ variable-length fields
\* ONCRPCwire.read_bytes: the length word, then read_exact of that many bytes.
read_bytes(stream, pos) ==
    LET count == read_uint32(stream, pos) IN
    IF count.kind = "raise" THEN count ELSE read_exact(stream, count.pos, count.val)

\* ONCRPCwire.discard_auth: flavor and length unpacked from 8 bytes, then
\* stream.seek(stuff_len, io.SEEK_CUR).
discard_auth(stream, pos) ==
    LET h == read_exact(stream, pos, 8) IN
    IF h.kind = "raise" THEN h ELSE Decoded(<<>>, h.pos + unpack_I(SubSeq(h.val, 5, 8)))

\* READ3res.read behind file_attributes: count, eof and the length of the
\* data unpacked from 12 bytes, then read_exact of the data.
READ3res_read_data(stream, pos) ==
    LET h == read_exact(stream, pos, 12) IN
    IF h.kind = "raise" THEN h ELSE read_exact(stream, h.pos, unpack_I(SubSeq(h.val, 9, 12)))

\* The decoders of a variable-length field, and what stands on the wire
\* before the length word of the field where the decoder starts: the flavor
\* of the verifier, count and eof of a READ result.
VarFieldDecoders == {"read_bytes", "discard_auth", "READ3res", "filename3", "nfs_fh3"}
FieldPrefix(d) ==
    CASE d = "discard_auth" -> pack_I(0)
      [] d = "READ3res" -> pack_I(1) \o pack_I(1)
      [] OTHER -> <<>>

var_field_read(d, stream, pos) ==
    CASE d = "read_bytes" -> read_bytes(stream, pos)
      [] d = "discard_auth" -> discard_auth(stream, pos)
      [] d = "READ3res" -> READ3res_read_data(stream, pos)
      [] OTHER -> array_read(d, stream, pos)

\* A peer encodes the field with the bytes b as XDR demands (length, bytes,
\* zeros up to a multiple of 4) and the next word follows; the decoder d is
\* applied at the start of the stream.
VarFieldRead(d, b) ==
    /\ fn = "None"
    /\ fn' = "field_read"
    /\ fn_in' = <<d, b>>
    /\ fn_out' = var_field_read(d, FieldPrefix(d) \o vararray_write(b) \o pack_I(7), 0)
    /\ fn_self' = NoObject

\* ----------------------------------------------------- discriminated unions
\* ftype3 (nfs3.py)
ftype3_NF3REG == 1
ftype3_NF3BLK == 3
ftype3_NF3CHR == 4
ftype3_NF3SOCK == 6
ftype3_NF3FIFO == 7

\* An attribute of a union object: None, or an object of the class cls (with
\* the bytes of its buffer where it has one).
NoneAttr == [cls |-> "NoneType", buf |-> <<>>]
Attr(cls, b) == [cls |-> cls, buf |-> b]

\* createhow3.__init__(mode, obj_attributes, verf): obj_attributes (sattr3()
\* when None is given) for createmode3_UNCHECKED and createmode3_GUARDED, verf
\* (createverf3 of the bytes given, of zeros for None) for
\* createmode3_EXCLUSIVE, the other attribute None; ValueError for another
\* mode.
createhow3_init(mode, obj_attributes, verf) ==
    IF mode \in {createmode3_UNCHECKED, createmode3_GUARDED}
    THEN [self |-> [exists |-> TRUE, type |-> "createhow3", mode |-> mode,
                    arm1 |-> IF obj_attributes # NoneAttr THEN obj_attributes
                             ELSE Attr("sattr3", <<>>),
                    arm2 |-> NoneAttr],
          exc |-> ""]
    ELSE IF mode = createmode3_EXCLUSIVE
    THEN LET v == array_init("createverf3",
                             IF verf = NoneAttr THEN Data("NoneType", <<>>)
                             ELSE Data("bytes", verf.buf))
         IN IF v.exc # "" THEN [self |-> NoObject, exc |-> v.exc]
            ELSE [self |-> [exists |-> TRUE, type |-> "createhow3", mode |-> mode,
                            arm1 |-> NoneAttr, arm2 |-> Attr("createverf3", v.self.buf)],
                  exc |-> ""]
    ELSE [self |-> NoObject, exc |-> "ValueError"]

\* The setter of createhow3.mode: self._mode = createmode3(int(mode)).
createhow3_mode_setter(self, mode) == [self EXCEPT !.mode = mode]

\* mknoddata3.__init__(ftype, data): device for NF3CHR and NF3BLK given a
\* devicedata3, pipe_attributes for NF3SOCK and NF3FIFO given a sattr3, no
\* data for the other types; TypeError otherwise.
mknoddata3_init(ftype, data) ==
    LET obj(device, pipe_attributes) ==
            [self |-> [exists |-> TRUE, type |-> "mknoddata3", mode |-> ftype,
                       arm1 |-> device, arm2 |-> pipe_attributes],
             exc |-> ""]
        TypeError == [self |-> NoObject, exc |-> "TypeError"]
    IN
    IF ftype \in {ftype3_NF3CHR, ftype3_NF3BLK}
    THEN IF data.cls = "devicedata3" THEN obj(data, NoneAttr) ELSE TypeError
    ELSE IF ftype \in {ftype3_NF3SOCK, ftype3_NF3FIFO}
    THEN IF data.cls = "sattr3" THEN obj(NoneAttr, data) ELSE TypeError
    ELSE IF data # NoneAttr THEN TypeError ELSE obj(NoneAttr, NoneAttr)

\* devicedata3.write of devicedata3(): dev_attributes.write, spec.write.
devicedata3_write == sattr3_write \o pack_I(0) \o pack_I(0)

\* self.write(stream) of a union object: the discriminator, then write of the
\* attribute it selects; AttributeError when that attribute is None.
union_write(self) ==
    IF self.type = "createhow3"
    THEN IF self.mode \in {createmode3_UNCHECKED, createmode3_GUARDED}
         THEN IF self.arm1 = NoneAttr THEN FnRaise("AttributeError")
              ELSE FnReturn(pack_I(self.mode) \o sattr3_write)
         ELSE IF self.mode = createmode3_EXCLUSIVE
         THEN IF self.arm2 = NoneAttr THEN FnRaise("AttributeError")
              ELSE LET w == fixedarray_write("createverf3", self.arm2.buf) IN
                   IF w.kind = "raise" THEN w ELSE FnReturn(pack_I(self.mode) \o w.val)
         ELSE FnRaise("ValueError")
    ELSE IF self.mode \in {ftype3_NF3CHR, ftype3_NF3BLK}
         THEN IF self.arm1 = NoneAttr THEN FnRaise("AttributeError")
              ELSE FnReturn(pack_I(self.mode) \o devicedata3_write)
         ELSE IF self.mode \in {ftype3_NF3SOCK, ftype3_NF3FIFO}
         THEN IF self.arm2 = NoneAttr THEN FnRaise("AttributeError")
              ELSE FnReturn(pack_I(self.mode) \o sattr3_write)
         ELSE FnReturn(pack_I(self.mode))

\* Inputs: the arguments a caller hands to the constructors.
UnionAttrs ==
    {NoneAttr, Attr("sattr3", <<>>), Attr("devicedata3", <<>>)}
    \cup {Attr("bytes", b) : b \in {c \in ByteStrings : Len(c) = NFS3_COOKIEVERFSIZE}}

\* obj = createhow3(mode, obj_attributes, verf)
CreatehowInit(mode, obj_attributes, verf) ==
    /\ fn = "None"
    /\ fn' = "union.__init__"
    /\ fn_in' = <<"createhow3", mode, obj_attributes, verf>>
    /\ \E c \in {createhow3_init(mode, obj_attributes, verf)} :
          /\ fn_out' = IF c.exc # "" THEN FnRaise(c.exc) ELSE FnReturn(<<>>)
          /\ fn_self' = c.self

\* obj = mknoddata3(ftype, data)
MknodInit(ftype, data) ==
    /\ fn = "None"
    /\ fn' = "union.__init__"
    /\ fn_in' = <<"mknoddata3", ftype, data>>
    /\ \E c \in {mknoddata3_init(ftype, data)} :
          /\ fn_out' = IF c.exc # "" THEN FnRaise(c.exc) ELSE FnReturn(<<>>)
          /\ fn_self' = c.self

\* obj.mode = mode on a createhow3 that was constructed, possibly assigned to
\* before.
CreatehowModeSet(mode) ==
    /\ fn \in {"union.__init__", "mode"}
    /\ fn_self.exists
    /\ fn_self.type = "createhow3"
    /\ fn' = "mode"
    /\ fn_in' = <<"createhow3", mode>>
    /\ fn_out' = FnReturn(<<>>)
    /\ fn_self' = createhow3_mode_setter(fn_self, mode)

\* obj.write(stream) on an empty stream.
UnionWrite ==
    /\ fn \in {"union.__init__", "mode"}
    /\ fn_self.exists
    /\ fn' = "union.write"
    /\ fn_in' = <<fn_self.type>>
    /\ fn_out' = union_write(fn_self)
    /\ UNCHANGED fn_self

\* --------------------------------------------------------- latency tracker
VARIABLES lt_success, lt_recorded, lt_all, lt_ok

trackerVars == <<lt_success, lt_recorded, lt_all, lt_ok>>

\* A status that is None.
NoneStatus == [type |-> "NoneType", val |-> 0, text |-> "", arg |-> ""]

\* int(status): the value of an enum; an exception for a str that is not a
\* number and for None.
int_status(status) ==
    IF status.type \in {"str", "NoneType"} THEN [ok |-> FALSE, val |-> 0]
    ELSE [ok |-> TRUE, val |-> status.val]

\* nfsstat3._XLAT, and nfsstat3.valid(value): int(value) is one of its keys.
nfsstat3_XLAT ==
    {0, 1, 2, 5, 6, 13, 17, 18, 19, 20, 21, 22, 27, 28, 30, 31, 63, 66, 69, 70, 71}
    \cup (10001..10008)
stat_class_valid(status) == int_status(status).ok /\ int_status(status).val \in nfsstat3_XLAT

\* A _LatencyTrackerOp: opcount, opcount_success and the length of errors.
NewOp == [opcount |-> 0, opcount_success |-> 0, errors |-> 0]

\* _LatencyTrackerOp.complete: the operation is counted; a status that is not
\* valid for stat_class or not zero is appended to errors, a zero one counts
\* as a success.
LatencyTrackerOp_complete(op, status) ==
    LET counted == [op EXCEPT !.opcount = @ + 1] IN
    IF ~stat_class_valid(status) THEN [counted EXCEPT !.errors = @ + 1]
    ELSE IF int_status(status).val = 0 THEN [counted EXCEPT !.opcount_success = @ + 1]
    ELSE [counted EXCEPT !.errors = @ + 1]

TrackerIdle ==
    /\ lt_success = TRUE
    /\ lt_recorded = <<>>
    /\ lt_all = NewOp
    /\ lt_ok = NewOp

\* Inputs: the statuses of results, and the number of operations recorded.
MaxOps == 3
TrackedStatuses ==
    {nfsstat3(NFS3_OK), nfsstat3(NFS3ERR_NOENT), nfsstat3(NFS3ERR_JUKEBOX), accept_stat(1),
     reject_stat(RPC_MISMATCH), Auth_stat(1), StatusStr("RPCFailed"), StatusStr("RPCTimeout"),
     NoneStatus}

\* LatencyTracker.complete(opname, start, end, status): the flag, then
\* _LatencyTrackerOp.complete on the entry of _ops_all and, for a zero status,
\* on the entry of _ops_success.
TrackerComplete(status) ==
    /\ Len(lt_recorded) < MaxOps
    /\ lt_recorded' = Append(lt_recorded, status)
    /\ lt_success' = LatencyTracker_complete(lt_success, status)
    /\ lt_all' = LatencyTrackerOp_complete(lt_all, status)
    /\ lt_ok' = IF int_status(status).ok /\ int_status(status).val = 0
                THEN LatencyTrackerOp_complete(lt_ok, status) ELSE lt_ok

\* ------------------------------------------------------ path from a handle
\* ResolveState (examples/nfs3_path_from_fh.py).  A handle is the number in
\* its bytes, 0 for no handle; a path is a sequence of characters and a name
\* is one character.
VARIABLES rs_pc, rs_start, rs_exports, rs_fh, rs_seen, rs_path, rs_success, rs_pfh,
          rs_comps, rs_scanned, rs_exc

resolveVars == <<rs_pc, rs_start, rs_exports, rs_fh, rs_seen, rs_path, rs_success, rs_pfh,
                 rs_comps, rs_scanned, rs_exc>>

\* A bug: a parent that was seen before is scanned again.
seen_before_never(pfh, seen) == FALSE

\* if pfh in self.seen
seen_before(pfh, seen) == pfh \in seen

\* The path after the entry name was found in the parent: the name alone for
\* an empty path, else os.path.sep + name + os.path.sep + self.path.
path_prepend(path, name) ==
    IF path # <<>> THEN <<sep, name, sep>> \o path ELSE <<name>>

\* The path reported at an export: exportHpcCache.ex_dir.to_string() + self.path
path_finish(ex_dir, path) == ex_dir \o path

\* for entry in entries: the position of the first entry whose handle
\* (entry_handle, which looks the name up if the entry carries no handle) is
\* true and equal to fh; 0 when the loop ends without one.
first_match(entries, fh) ==
    LET hit == {i \in 1..Len(entries) : entries[i].efh # 0 /\ entries[i].efh = fh} IN
    IF hit = {} THEN 0 ELSE CHOOSE i \in hit : \A j \in hit : i <= j

\* self.exports: no export, or the export directory ex_dir mounted on fh.
NoExports == [fh |-> 0, ex_dir |-> <<>>]

ResolveIdle ==
    /\ rs_pc = "idle"
    /\ rs_start = 0
    /\ rs_exports = NoExports
    /\ rs_fh = 0
    /\ rs_seen = {}
    /\ rs_path = <<>>
    /\ rs_success = FALSE
    /\ rs_pfh = 0
    /\ rs_comps = <<>>
    /\ rs_scanned = <<>>
    /\ rs_exc = ""

\* Inputs: handles 1..MaxNodes, the exports, the answers to LOOKUP of "..",
\* listings of up to MaxEntries entries.
MaxNodes == 4
MaxEntries == 2
Nodes == 1..MaxNodes
EntryNames == {"a", "b"}
ExportChoices ==
    {NoExports, [fh |-> 1, ex_dir |-> <<sep>>], [fh |-> 1, ex_dir |-> <<sep, "e">>]}
LookupAnswers ==
    {[status |-> nfsstat3(NFS3_OK), handle |-> h] : h \in {0} \cup Nodes}
    \cup {[status |-> st, handle |-> 0] : st \in {nfsstat3(NFS3ERR_NOENT), StatusStr("RPCFailed")}}

\* The listings of the parent pfh while the handle fh is looked for: entries
\* without a handle, with the handle fh, with the handle of pfh itself.
Listings(fh, pfh) ==
    UNION {[1..k -> {[name |-> nm, efh |-> h] : nm \in EntryNames, h \in {0, fh, pfh}}] :
              k \in 0..MaxEntries}
ScanAnswers(fh, pfh) ==
    {[kind |-> "fail", entries |-> <<>>], [kind |-> "raise", entries |-> <<>>]}
    \cup {[kind |-> "ok", entries |-> es] : es \in Listings(fh, pfh)}

\* ResolveState(addr, fh) with the exports loaded.
RsInit(fh, exports) ==
    /\ rs_pc = "idle"
    /\ rs_pc' = "loop"
    /\ rs_start' = fh
    /\ rs_exports' = exports
    /\ rs_fh' = fh
    /\ rs_seen' = {fh}
    /\ rs_path' = <<>>
    /\ rs_success' = FALSE
    /\ rs_pfh' = 0
    /\ rs_comps' = <<>>
    /\ rs_scanned' = <<>>
    /\ rs_exc' = ""

\* _resolve_one up to the scan of the parent: the test for an export, LOOKUP
\* of ".." with the answer lk, the test of self.seen.
RsLookup(lk) ==
    /\ rs_pc = "loop"
    /\ IF rs_exports.fh # 0 /\ rs_exports.fh = rs_fh
       THEN /\ rs_path' = path_finish(rs_exports.ex_dir, rs_path)
            /\ rs_pc' = "done"
            /\ rs_success' = TRUE
            /\ UNCHANGED <<rs_seen, rs_pfh, rs_scanned>>
       ELSE IF ONCRPCres_bool(lk) \/ lk.handle = 0
       THEN /\ rs_pc' = "done"
            /\ UNCHANGED <<rs_seen, rs_path, rs_success, rs_pfh, rs_scanned>>
       ELSE IF seen_before(lk.handle, rs_seen)
       THEN /\ rs_pc' = "done"
            /\ rs_pfh' = lk.handle
            /\ UNCHANGED <<rs_seen, rs_path, rs_success, rs_scanned>>
       ELSE /\ rs_pc' = "scan"
            /\ rs_pfh' = lk.handle
            /\ rs_seen' = rs_seen \cup {lk.handle}
            /\ rs_scanned' = Append(rs_scanned, lk.handle)
            /\ UNCHANGED <<rs_path, rs_success>>
    /\ UNCHANGED <<rs_start, rs_exports, rs_fh, rs_comps, rs_exc>>

\* The rest of _resolve_one: readdirplus_entire_dir on the parent (a failure,
\* an exception out of it, or the entries) and the loop over the entries;
\* then the test of "while not self.done" in resolve.
RsScan(scan) ==
    /\ rs_pc = "scan"
    /\ IF scan.kind = "raise"
       THEN /\ rs_pc' = "raised"
            /\ rs_exc' = "IndexError"
            /\ UNCHANGED <<rs_fh, rs_path, rs_comps>>
       ELSE IF scan.kind = "fail" \/ first_match(scan.entries, rs_fh) = 0
       THEN /\ rs_pc' = "done"
            /\ UNCHANGED <<rs_fh, rs_path, rs_comps, rs_exc>>
       ELSE /\ rs_path' = path_prepend(rs_path,
                              scan.entries[first_match(scan.entries, rs_fh)].name)
            /\ rs_comps' = <<scan.entries[first_match(scan.entries, rs_fh)].name>> \o rs_comps
            /\ rs_fh' = rs_pfh
            /\ rs_pc' = "loop"
            /\ UNCHANGED rs_exc
    /\ UNCHANGED <<rs_start, rs_exports, rs_seen, rs_success, rs_pfh, rs_scanned>>

\* The caller has read success and path.
RsReturn ==
    /\ rs_pc \in {"done", "raised"}
    /\ rs_pc' = "idle"
    /\ rs_start' = 0
    /\ rs_exports' = NoExports
    /\ rs_fh' = 0
    /\ rs_seen' = {}
    /\ rs_path' = <<>>
    /\ rs_success' = FALSE
    /\ rs_pfh' = 0
    /\ rs_comps' = <<>>
    /\ rs_scanned' = <<>>
    /\ rs_exc' = ""

\* -------------------------------------------------------- specifications
auxVars == <<wireVars, pathVars, dirVars, rmVars, lcVars, flushVars, frameVars, connVars, trackerVars, resolveVars>>
AuxIdle == WireIdle /\ PathIdle /\ DirIdle /\ RmIdle /\ LcIdle /\ FlushIdle /\ FrameIdle /\ ConnIdle /\ TrackerIdle /\ ResolveIdle

vars == <<xidVars, callVars, auxVars>>

\* The transport and the NFS3 wrapper: calls of one client.
Init ==
    /\ _lastxid = [lastxid_Init EXCEPT !["TCPPortMapperClient"] = 1]
    /\ XidIdle
    /\ CallInit
    /\ AuxIdle

Next ==
    \/ /\ \E ct \in CallTriesArgs \cup {None}, ax \in XidArgs, lg \in {"None", "logger"},
             tm \in TimeoutArgs, rc \in ResClasses :
               RawMakeCall(ct, ax, lg, tm, rc)
       /\ UNCHANGED auxVars
    \/ /\ \E ct \in CallTriesArgs, ix \in XidArgs,
             tm \in UtilTimeoutArgs, rc \in ResClasses :
               UtilMakeCall(ct, ix, tm, rc)
       /\ UNCHANGED auxVars
    \/ UtilTry /\ UNCHANGED auxVars
    \/ (\E ev \in Events(xid) : RawAttempt(ev)) /\ UNCHANGED auxVars
    \/ UtilAfter /\ UNCHANGED auxVars
    \/ UtilReturn /\ UNCHANGED auxVars
    \/ Finish /\ UNCHANGED auxVars
    \/ Close /\ UNCHANGED auxVars

Spec == Init /\ [][Next]_vars

\* The modules as loaded: no client has allocated an XID, no call is in
\* progress, no function has been applied.
InitXid ==
    /\ _lastxid = lastxid_Init
    /\ XidIdle
    /\ CallInit
    /\ AuxIdle

\* The XID counter under concurrent allocation.
xidRest == <<callVars, auxVars>>

NextXid ==
    \/ \E t \in Threads, c \in ClientClasses : GetNewXidCall(t, c) /\ UNCHANGED xidRest
    \/ \E t \in Threads, c \in ClientClasses, x \in 1..MaxXid :
          XidUsedCall(t, c, x) /\ UNCHANGED xidRest
    \/ \E t \in Threads : LockAcquire(t) /\ UNCHANGED xidRest
    \/ \E t \in Threads : XidIncrement(t) /\ UNCHANGED xidRest
    \/ \E t \in Threads : XidReturn(t) /\ UNCHANGED xidRest
    \/ \E t \in Threads : XidUsedStore(t) /\ UNCHANGED xidRest

SpecXid == InitXid /\ [][NextXid]_vars

\* Calls of every NFSv3 procedure through the transport, answered by accepted
\* replies only.
NextDecode ==
    \/ /\ \E ct \in CallTriesArgs, rc \in NfsResClasses :
             RawMakeCall(ct, None, "logger", <<None, None, 0>>, rc)
       /\ UNCHANGED auxVars
    \/ /\ \E r \in DecodeReplies(xid, res_class) : RawAttempt([kind |-> "reply", reply |-> r])
       /\ UNCHANGED auxVars
    \/ Finish /\ UNCHANGED auxVars

SpecDecode == Init /\ [][NextDecode]_vars

\* Path resolution against a server that answers every MOUNT and LOOKUP as it
\* likes.
pathRest == <<xidVars, callVars, wireVars, dirVars, rmVars, lcVars, flushVars, frameVars, connVars, trackerVars, resolveVars>>

NextPath ==
    \/ \E start \in {NoHandle} \cup ServerHandles("nfs_fh3"), p \in Paths :
          ResolveCall(start, p) /\ UNCHANGED pathRest
    \/ \E st \in {0, 13}, h \in ServerHandles("fhandle3") :
          ResolveMount(st, h) /\ UNCHANGED pathRest
    \/ \E st \in LookupStatuses, h \in ServerHandles("nfs_fh3") :
          ResolveLookup(st, h) /\ UNCHANGED pathRest
    \/ ResolveReturn /\ UNCHANGED pathRest
    \/ ResolveDone /\ UNCHANGED pathRest

SpecPath == InitXid /\ [][NextPath]_vars

\* The functions of the wire data types, each applied to inputs of a bounded
\* set; no call in progress.
wireRest == <<xidVars, callVars, pathVars, dirVars, rmVars, lcVars, flushVars, frameVars, connVars, trackerVars, resolveVars>>

NextWire ==
    \/ \E a \in EnumValues, b \in EnumOperands : EnumCompare(a, b) /\ UNCHANGED wireRest
    \/ \E o \in OrderOps, a \in EnumValues, b \in EnumOperands :
          EnumOrder(o, a, b) /\ UNCHANGED wireRest
    \/ \E t \in CodecTypes : \E v \in WireValues(t) : WireWrite(t, v) /\ UNCHANGED wireRest
    \/ \E v \in CreatehowValues : WireWrite("createhow3", v) /\ UNCHANGED wireRest
    \/ WireReadBack /\ UNCHANGED wireRest
    \/ \E t \in CodecTypes, stream \in Streams : WireRead(t, stream) /\ UNCHANGED wireRest
    \/ \E t \in ArrayTypes, ty \in DataTypes, b \in ByteStrings :
          ArrayInit(t, Data(ty, b)) /\ UNCHANGED wireRest
    \/ \E ty \in DataTypes, b \in ByteStrings : BufSet(Data(ty, b)) /\ UNCHANGED wireRest
    \/ \E d \in VarFieldDecoders, b \in {c \in ByteStrings : Len(c) <= MaxLen} :
          VarFieldRead(d, b) /\ UNCHANGED wireRest
    \/ \E mode \in createmode3_UNCHECKED..createmode3_EXCLUSIVE + 1,
          obj_attributes \in {NoneAttr, Attr("sattr3", <<>>)},
          verf \in UnionAttrs \ {Attr("sattr3", <<>>), Attr("devicedata3", <<>>)} :
             CreatehowInit(mode, obj_attributes, verf) /\ UNCHANGED wireRest
    \/ \E ftype \in ftype3_NF3REG..ftype3_NF3FIFO, data \in UnionAttrs :
          MknodInit(ftype, data) /\ UNCHANGED wireRest
    \/ \E mode \in createmode3_UNCHECKED..createmode3_EXCLUSIVE + 1 :
          CreatehowModeSet(mode) /\ UNCHANGED wireRest
    \/ UnionWrite /\ UNCHANGED wireRest
    \/ WireDone /\ UNCHANGED wireRest

SpecWire == InitXid /\ [][NextWire]_vars

\* Listings of a directory by a server that answers every READDIR and
\* READDIRPLUS as it likes.
dirRest == <<xidVars, callVars, wireVars, pathVars, rmVars, lcVars, flushVars, frameVars, connVars, trackerVars, resolveVars>>

NextDir ==
    \/ \E plus \in BOOLEAN : DirCall(plus) /\ UNCHANGED dirRest
    \/ \E pg \in DirPages : DirPage(pg) /\ UNCHANGED dirRest
    \/ DirDone /\ UNCHANGED dirRest

SpecDir == InitXid /\ [][NextDir]_vars

\* Removals of a subtree on a server that answers every RPC as it likes.
rmRest == <<xidVars, callVars, wireVars, pathVars, lcVars, flushVars, frameVars, connVars, trackerVars, resolveVars>>

NextRm ==
    \/ \E nm \in {Str(<<"d">>), FileName(<<"d">>)} :
          RmCall(Str(<<sep, "p">>), Handle("nfs_fh3", 1), nm) /\ UNCHANGED rmRest
    \/ \E st \in RemoveStatuses : RmRemove(st) /\ UNCHANGED rmRest
    \/ \E st \in {NFS3_OK, NFS3ERR_NOENT, NFS3ERR_ACCES} : RmLookup(st, Handle("nfs_fh3", 2)) /\ UNCHANGED rmRest
    \/ \E pg \in RmPages : DirPage(pg) /\ UNCHANGED <<rmRest, rmVars>>
    \/ RmListed /\ UNCHANGED rmRest
    \/ RmEntry /\ UNCHANGED rmRest
    \/ \E st \in RmdirStatuses : RmRmdir(st) /\ UNCHANGED rmRest
    \/ RmReturn /\ UNCHANGED rmRest
    \/ RmDone /\ UNCHANGED rmRest

SpecRm == InitXid /\ [][NextRm]_vars

\* lookup_create against a server that answers every LOOKUP and MKDIR as it
\* likes.
lcRest == <<xidVars, callVars, wireVars, pathVars, dirVars, rmVars, flushVars, frameVars, connVars, trackerVars, resolveVars>>

NextLc ==
    \/ \E parentdirfh \in ServerHandles("nfs_fh3"), aname \in {<<"x">>, <<"x", "y">>},
          prevfh \in {NoHandle} \cup ServerHandles("nfs_fh3"), do_create \in BOOLEAN :
          LcCall(parentdirfh, aname, prevfh, do_create) /\ UNCHANGED lcRest
    \/ \E st \in LcStatuses, h \in WireHandles : LcLookup(st, h) /\ UNCHANGED lcRest
    \/ \E st \in LcStatuses, f \in BOOLEAN, h \in WireHandles :
          LcMkdir(st, post_op_fh3(f, h)) /\ UNCHANGED lcRest
    \/ \E st \in LcStatuses, h \in WireHandles : LcLookupAgain(st, h) /\ UNCHANGED lcRest
    \/ LcDone /\ UNCHANGED lcRest

SpecLc == InitXid /\ [][NextLc]_vars

\* commit_and_wait called on one client, the server answering every COMMIT as
\* it likes; the thread keeps running, so an enabled iteration of the polling
\* loop is taken.
flushRest == <<xidVars, callVars, wireVars, pathVars, dirVars, rmVars, lcVars, frameVars, connVars, trackerVars, resolveVars>>

NextFlush ==
    \/ \E h \in ServerHandles("nfs_fh3"), timeout \in 0..MaxTimeout :
          FlCommitAndWait(1, h, timeout) /\ UNCHANGED flushRest
    \/ \E status \in CommitStatuses, d \in Durations : FlAsync(1, status, d) /\ UNCHANGED flushRest
    \/ \E status \in CommitStatuses, after \in BOOLEAN, d \in Durations :
          FlPoll(1, status, after, d) /\ UNCHANGED flushRest
    \/ FlFinish(1) /\ UNCHANGED flushRest

SpecFlush ==
    /\ InitXid
    /\ [][NextFlush]_vars
    /\ WF_vars(\E status \in CommitStatuses, after \in BOOLEAN, d \in Durations :
                  FlPoll(1, status, after, d) /\ UNCHANGED flushRest)

\* The flusher with its pool of workers, reading up to MaxFiles paths; every
\* RPC takes one tick.
PoolAsyncStatuses == {nfsstat3(NFS3_OK), nfsstat3(NFS3ERR_ACCES)}
PoolPollStatuses == {nfsstat3(NFS3_OK), nfsstat3(NFS3ERR_NOT_SYNC), nfsstat3(NFS3ERR_NOTEMPTY)}

NextPool ==
    \/ \E timeout \in 0..MaxTimeout : FlStart(timeout) /\ UNCHANGED flushRest
    \/ \E filepath \in FlushPaths : FlPut(filepath) /\ UNCHANGED flushRest
    \/ FlEof /\ UNCHANGED flushRest
    \/ FlJoin /\ UNCHANGED flushRest
    \/ FlExit /\ UNCHANGED flushRest
    \/ \E w \in Workers : FlTake(w) /\ UNCHANGED flushRest
    \/ \E w \in Workers, st \in {NFS3_OK, NFS3ERR_NOENT} :
          FlLookup(w, st, Handle("nfs_fh3", MaxHandle)) /\ UNCHANGED flushRest
    \/ \E w \in Workers, status \in PoolAsyncStatuses : FlAsync(w, status, 1) /\ UNCHANGED flushRest
    \/ \E w \in Workers, status \in PoolPollStatuses, after \in BOOLEAN :
          FlPoll(w, status, after, 1) /\ UNCHANGED flushRest
    \/ \E w \in Workers : FlFinish(w) /\ UNCHANGED flushRest
    \/ \E w \in Workers : FlSetupFailed(w) /\ UNCHANGED flushRest

SpecPool == InitXid /\ [][NextPool]_vars

\* The pool where every thread that can take a step takes it: a worker
\* thread that is alive keeps running and its RPCs are answered, standard
\* input comes to its end, and q.join() returns once it can.
WorkerStep(w) ==
    \/ FlTake(w)
    \/ \E st \in {NFS3_OK, NFS3ERR_NOENT} : FlLookup(w, st, Handle("nfs_fh3", MaxHandle))
    \/ \E status \in PoolAsyncStatuses : FlAsync(w, status, 1)
    \/ \E status \in PoolPollStatuses, after \in BOOLEAN : FlPoll(w, status, after, 1)
    \/ FlFinish(w)

SpecPoolFair ==
    /\ InitXid
    /\ [][NextPool]_vars
    /\ \A w \in Workers : WF_vars(WorkerStep(w) /\ UNCHANGED flushRest)
    /\ WF_vars(FlEof /\ UNCHANGED flushRest)
    /\ WF_vars(FlJoin /\ UNCHANGED flushRest)

\* Records received from a peer that fragments as it likes, over a connection
\* that delivers chunks as it likes, and records sent to a framer.
frameRest == <<xidVars, callVars, wireVars, pathVars, dirVars, rmVars, lcVars, flushVars, connVars, trackerVars, resolveVars>>

NextFrame ==
    \/ \E frags \in FragLists : FrRecvRecord(frags) /\ UNCHANGED frameRest
    \/ \E payload \in FragPayloads, accepted \in 1..(4 + MaxFragLen) :
          FrSendRecord(payload, accepted) /\ UNCHANGED frameRest
    \/ \E chunk \in Chunks : FrHeader(chunk) /\ UNCHANGED frameRest
    \/ \E chunk \in Chunks : FrBody(chunk) /\ UNCHANGED frameRest
    \/ FrDone /\ UNCHANGED frameRest

SpecFrame == InitXid /\ [][NextFrame]_vars

\* Consecutive calls on one connection to a server that answers when it likes.
connRest == <<xidVars, callVars, wireVars, pathVars, dirVars, rmVars, lcVars, flushVars, frameVars, trackerVars, resolveVars>>

NextConn ==
    \/ \E ct \in 1..callTries_default : CnMakeCall(ct) /\ UNCHANGED connRest
    \/ \E deadline \in BOOLEAN : CnSend(deadline) /\ UNCHANGED connRest
    \/ CnServerReply /\ UNCHANGED connRest
    \/ \E ev \in {"deadline", "timeout", "data"} : CnRecv(ev) /\ UNCHANGED connRest
    \/ CnDone /\ UNCHANGED connRest
    \/ CnNewClient /\ UNCHANGED connRest

SpecConn == InitXid /\ [][NextConn]_vars

trackerRest == <<xidVars, callVars, wireVars, pathVars, dirVars, rmVars, lcVars, flushVars, frameVars, connVars, resolveVars>>
NextTracker ==
    \/ \E status \in TrackedStatuses : TrackerComplete(status) /\ UNCHANGED trackerRest

SpecTracker == InitXid /\ [][NextTracker]_vars

resolveRest == <<xidVars, callVars, wireVars, pathVars, dirVars, rmVars, lcVars, flushVars, frameVars, connVars, trackerVars>>
NextResolve ==
    \/ \E fh \in Nodes, exports \in ExportChoices : RsInit(fh, exports) /\ UNCHANGED resolveRest
    \/ \E lk \in LookupAnswers : RsLookup(lk) /\ UNCHANGED resolveRest
    \/ \E scan \in ScanAnswers(rs_fh, rs_pfh) : RsScan(scan) /\ UNCHANGED resolveRest
    \/ RsReturn /\ UNCHANGED resolveRest

\* The loop of resolve runs on while done is not set, and every RPC of an
\* iteration is answered.
SpecResolve ==
    /\ InitXid
    /\ [][NextResolve]_vars
    /\ WF_vars(\E lk \in LookupAnswers : RsLookup(lk) /\ UNCHANGED resolveRest)
    /\ WF_vars(\E scan \in ScanAnswers(rs_fh, rs_pfh) : RsScan(scan) /\ UNCHANGED resolveRest)

\* ----------------------------------------------------------------- claims

\* C1: every value returned by get_new_xid, through whatever client class, is
\* strictly greater than every value returned by an earlier get_new_xid call
\* of the process (so no XID is allocated twice).
XidStrictlyMonotonicProcessWide ==
    \A i \in 1..Len(xidLog) : \A j \in 1..Len(xidLog) :
        i < j => xidLog[i] < xidLog[j]

\* The last attempt received a reply record with a complete 12-byte header.
GotHeader == last.got_reply /\ Len(reply_stream) >= 3

\* C2: a result of the result class (not a failure) is returned only for a
\* reply whose XID equals the XID of the call; for a reply with another XID
\* the attempt returns an ONCRPCresfail, need_reconnect is set and
\* res_class.read() is not entered.
ReplyXidMustMatch ==
    /\ (pc = "done" /\ ~IsResFail(result))
          => (GotHeader /\ reply_stream[1] = last.xid /\ result.xid = last.xid)
    /\ (GotHeader /\ reply_stream[1] # last.xid)
          => (/\ last.returned
              /\ last.cls = "ONCRPCresfail"
              /\ last.need_reconnect
              /\ ~last.decoded)

\* C2 witness: a call ended on a reply carrying another XID.
WrongXidReplySeen ==
    /\ pc = "done"
    /\ GotHeader
    /\ reply_stream[1] # last.xid
    /\ reply_stream[2] = REPLY
    /\ IsResFail(result)

\* The call in progress or just finished entered through
\* nfs3_util.NFS3_Client.make_call.
UtilCall == layer = "util" /\ pc \in {"util", "raw", "util_after", "done"}

\* Attempts 1..k of the call were all answered NFS3ERR_JUKEBOX.
JukeboxPrefix(k) == \A m \in 1..k : attempts[m].out = "NFS3ERR_JUKEBOX"

\* C3: without a caller-supplied XID, when the first k attempts are answered
\* NFS3ERR_JUKEBOX and attempt k+1 NFS3_OK, attempt k+1 is the last one, the
\* k+1 attempts carry pairwise distinct XIDs and the call returns NFS3_OK;
\* a call whose attempts were all answered JUKEBOX ends only after callTries
\* attempts.
JukeboxRetriedWithNewXid ==
    (UtilCall /\ in_xid = None) =>
        /\ \A k \in 0..Len(attempts) :
              (k < Len(attempts) /\ JukeboxPrefix(k) /\ attempts[k + 1].out = "NFS3_OK")
                 => /\ Len(attempts) = k + 1
                    /\ pc \in {"util_after", "done"}
                    /\ \A i \in 1..(k + 1) : \A j \in 1..(k + 1) :
                          i # j => attempts[i].xid # attempts[j].xid
                    /\ pc = "done" => result.status = nfsstat3(NFS3_OK)
        /\ (pc = "done" /\ JukeboxPrefix(Len(attempts)))
              => Len(attempts) = util_callTries

\* C3 witness: two JUKEBOX answers, then NFS3_OK, and the call has returned.
JukeboxTwiceThenOk ==
    /\ UtilCall /\ in_xid = None /\ pc = "done"
    /\ Len(attempts) = 3
    /\ JukeboxPrefix(2)
    /\ attempts[3].out = "NFS3_OK"
    /\ result.status = nfsstat3(NFS3_OK)

\* C4: an attempt that ends with an nfsstat3 status other than
\* NFS3ERR_JUKEBOX is the last attempt of the call, and its result is what
\* the call returns.
OtherNfsstatReturnedAtOnce ==
    UtilCall =>
        \A i \in 1..Len(attempts) :
            attempts[i].out \in {"NFS3_OK", "nfsstat3"}
               => /\ i = Len(attempts)
                  /\ pc \in {"util_after", "done"}
                  /\ pc = "done" => (result.status = last.status /\ result.cls = last.cls)

\* C4 witness: the first attempt got a non-OK, non-JUKEBOX nfsstat3 and the
\* call returned although tries remained.
NfsErrorReturnedEarly ==
    /\ UtilCall /\ pc = "done"
    /\ Len(attempts) = 1
    /\ attempts[1].out = "nfsstat3"
    /\ util_callTries > 1
    /\ result.status.type = "nfsstat3"

\* Outcomes of an attempt whose status is no nfsstat3.
RpcLevelFailure == {"resfail", "RPCTimeout", "exception"}

\* C5: after an attempt with a status that is no nfsstat3 the next attempt
\* carries the same XID; the call gives up on such a failure only when
\* callTries attempts were made; there are never more than callTries
\* attempts; the result returned is the result of the last attempt.
RpcFailureRetriedSameXid ==
    UtilCall =>
        /\ Len(attempts) <= util_callTries
        /\ \A i \in 1..Len(attempts) :
              (i < Len(attempts) /\ attempts[i].out \in RpcLevelFailure)
                 => attempts[i + 1].xid = attempts[i].xid
        /\ (pc = "done" /\ attempts[Len(attempts)].out \in RpcLevelFailure)
              => Len(attempts) = util_callTries
        /\ pc = "done"
              => /\ Len(attempts) >= 1
                 /\ result.xid = last.xid
                 /\ last.returned => (result.status = last.status /\ result.cls = last.cls)
                 /\ ~last.returned => IsResFail(result)

\* C5 witness: a JUKEBOX answer and RPC-level failures used up all three
\* tries.
MixedFailuresExhaustTries ==
    /\ UtilCall /\ pc = "done"
    /\ util_callTries = 3
    /\ Len(attempts) = 3
    /\ \E i \in 1..3 : attempts[i].out = "NFS3ERR_JUKEBOX"
    /\ attempts[2].out \in RpcLevelFailure
    /\ attempts[3].out \in RpcLevelFailure
    /\ attempts[3].xid = attempts[2].xid

\* The call in progress or just finished entered through the transport
\* make_call.
RawCall == layer = "raw" /\ pc \in {"raw", "done", "raised"}

\* What C6 promises: callTries attempts, each sent, each with the XID of the
\* call, and an ONCRPCresfailTimeout with status "RPCTimeout".
SentEveryTryThenTimeout ==
    /\ Len(attempts) = callTries
    /\ \A i \in 1..Len(attempts) : attempts[i].sent /\ attempts[i].xid = xid
    /\ result = ONCRPCresfailTimeout(xid)

\* C6 as stated: against a server that never replies, make_call without a
\* caller-supplied XID sends the call callTries times with one XID and
\* returns status "RPCTimeout".
SilentServerSendsEveryTry ==
    (RawCall /\ pc = "done" /\ server_silent /\ arg_xid = None)
        => SentEveryTryThenTimeout

\* C6 amended: the same, for a call that passes timeoutRel (or neither
\* timeout), with timeoutRel longer than a connect takes, on a client that
\* has a socket or is marked for reconnect when the call starts.
SilentServerSendsEveryTryRel ==
    (/\ RawCall /\ pc = "done" /\ server_silent /\ arg_xid = None
     /\ kw_timeoutAbs = None
     /\ timeoutRel > connDelay
     /\ ~start_closed)
        => SentEveryTryThenTimeout

\* C6 witness: three tries against a silent server, with reconnects.
SilentServerThreeTries ==
    /\ RawCall /\ pc = "done" /\ server_silent /\ arg_xid = None
    /\ kw_timeoutAbs = None /\ timeoutRel > connDelay /\ ~start_closed
    /\ callTries = 3
    /\ Len(attempts) = 3
    /\ last.reconnected
    /\ result.status = StatusStr("RPCTimeout")

\* C7 as stated: with a caller-supplied XID at most one attempt is made.
CallerXidSingleAttempt ==
    ((RawCall /\ arg_xid # None) \/ (UtilCall /\ in_xid # None))
        => Len(attempts) <= 1

\* C7 amended: when nfs3_util.NFS3_Client.make_call is given an XID, every
\* attempt carries that XID and an attempt answered NFS3ERR_JUKEBOX is the
\* last one, its result being returned (timeouts and transport errors are
\* retried as without a caller-supplied XID).
CallerXidNoJukeboxRetry ==
    (UtilCall /\ in_xid # None) =>
        \A i \in 1..Len(attempts) :
            /\ attempts[i].xid = in_xid
            /\ attempts[i].out = "NFS3ERR_JUKEBOX"
                  => /\ i = Len(attempts)
                     /\ pc \in {"util_after", "done"}
                     /\ pc = "done" => result.status = nfsstat3(NFS3ERR_JUKEBOX)

\* C7 witness: caller-supplied XID, a transport failure retried, then
\* JUKEBOX returned although a try remained.
CallerXidJukeboxReturned ==
    /\ UtilCall /\ in_xid # None /\ pc = "done"
    /\ util_callTries = 3
    /\ Len(attempts) = 2
    /\ attempts[1].out \in RpcLevelFailure
    /\ attempts[2].out = "NFS3ERR_JUKEBOX"
    /\ result.status = nfsstat3(NFS3ERR_JUKEBOX)

\* C8: make_call never raises: no exception leaves it, and a call whose last
\* attempt failed returns an ONCRPCresfail.
MakeCallNeverRaises ==
    /\ pc # "raised"
    /\ (pc = "done" /\ ~last.returned) => IsResFail(result)

\* The last attempt received a MSG_DENIED reply to its own XID with the
\* reject-stat rs.
DeniedReply(rs) ==
    /\ GotHeader
    /\ Len(reply_stream) >= 4
    /\ reply_stream[1] = last.xid
    /\ reply_stream[2] = REPLY
    /\ reply_stream[3] = MSG_DENIED
    /\ reply_stream[4] = rs

\* C9: for MSG_DENIED with RPC_MISMATCH the attempt returns an ONCRPCresfail
\* with status reject_stat RPC_MISMATCH, the stream stands 8 bytes behind the
\* reject-stat (offset 16) and res_class.read() is not entered.
RpcMismatchDenied ==
    DeniedReply(RPC_MISMATCH) =>
        /\ last.returned
        /\ last.cls = "ONCRPCresfail"
        /\ last.status = reject_stat(RPC_MISMATCH)
        /\ last.pos = 16 + 8
        /\ ~last.decoded
        /\ (RawCall /\ pc = "done") => result.status = reject_stat(RPC_MISMATCH)

\* C9 witness: a call ended on an RPC_MISMATCH denial.
RpcMismatchSeen ==
    /\ DeniedReply(RPC_MISMATCH)
    /\ RawCall /\ pc = "done"
    /\ IsResFail(result)

\* C10: for MSG_DENIED with AUTH_ERROR and auth-stat s the status of the
\* failure result is the auth-stat s read from the reply.
AuthErrorCarriesAuthStat ==
    (DeniedReply(AUTH_ERROR) /\ Len(reply_stream) >= 5) =>
        /\ last.returned
        /\ last.cls = "ONCRPCresfail"
        /\ last.status = Auth_stat(reply_stream[5])

\* C12: for two values of distinct annotated_enum subclasses a == b returns
\* False or raises TypeError, never True; <, <=, > and >= on an annotated_enum
\* always raise.
EnumMismatchNeverEqual ==
    /\ (fn = "__eq__" /\ fn_in[2].type \in EnumClasses /\ fn_in[1].type # fn_in[2].type)
          => (fn_out.kind = "raise" \/ fn_out.val = FALSE)
    /\ fn \in OrderOps => fn_out.kind = "raise"

\* C13: for every wire type with an encoder and a decoder, read(write(v))
\* equals v for every valid v and consumes exactly the bytes write produced.
WireRoundTrip ==
    fn = "read_back" =>
        /\ fn_out.kind = "return"
        /\ fn_out.val = fn_in[2]
        /\ fn_out.pos = Len(fn_in[3])

\* C14: createhow3.write emits the createmode3 word followed, for createmode3_UNCHECKED
\* and createmode3_GUARDED, by the sattr3 encoding and, for createmode3_EXCLUSIVE, by exactly the 8
\* bytes of the verifier: 12 bytes for createmode3_EXCLUSIVE.
CreatehowEncoding ==
    (fn = "write" /\ fn_in[1] = "createhow3" /\ fn_in[2].mode \in createmode3_UNCHECKED..createmode3_EXCLUSIVE) =>
        /\ fn_out.kind = "return"
        /\ SubSeq(fn_out.val, 1, 4) = pack_I(fn_in[2].mode)
        /\ fn_in[2].mode \in {createmode3_UNCHECKED, createmode3_GUARDED}
              => SubSeq(fn_out.val, 5, Len(fn_out.val)) = sattr3_write
        /\ fn_in[2].mode = createmode3_EXCLUSIVE
              => /\ SubSeq(fn_out.val, 5, Len(fn_out.val)) = fn_in[2].verf
                 /\ Len(fn_out.val) = 4 + NFS3_COOKIEVERFSIZE

\* C15: no nfs_fh3 or fhandle3 longer than 64 bytes ever exists; construction
\* from longer data fails, and decoding a handle whose length word exceeds 64
\* raises ProtocolError instead of returning a handle.
HandleNeverLonger ==
    /\ (fn_self.exists /\ fn_self.type \in {"nfs_fh3", "fhandle3"})
          => Len(fn_self.buf) <= NFS3_FHSIZE
    /\ (fn = "__init__" /\ fn_in[1] \in {"nfs_fh3", "fhandle3"}
          /\ Len(fn_in[2].val) > NFS3_FHSIZE)
          => (fn_out.kind = "raise" /\ ~fn_self.exists)
    /\ (fn = "read" /\ fn_in[1] \in {"nfs_fh3", "fhandle3"} /\ Len(fn_in[2]) >= 4
          /\ unpack_I(fn_in[2]) > NFS3_FHSIZE)
          => (fn_out.kind = "raise" /\ fn_out.exc = "ProtocolError" /\ ~fn_self.exists)

\* C11: for every NFSv3 procedure, a reply accepted with SUCCESS whose body
\* starts with a non-OK nfsstat3 is returned as an instance of the procedure's
\* result class (not ONCRPCresfail) with the status of the wire and the fields
\* of the FAIL arm decoded; the attempt is not retried and need_reconnect is
\* not set.
NonOkStatusReturnedDecoded ==
    \A st \in NfsStatuses \ {NFS3_OK} : \A e \in ArmEncodings(ResArms(res_class).fail) :
        (RawCall /\ last.got_reply
         /\ reply_stream = <<last.xid, REPLY, MSG_ACCEPTED, 0, 0, SUCCESS, st>> \o e.words)
        => /\ pc = "done"
           /\ last.returned /\ last.decoded
           /\ result = ONCRPCres(res_class, last.xid, nfsstat3(st), e.fields)
           /\ ~IsResFail(result)
           /\ last.pos = StreamLen(reply_stream)
           /\ ~last.need_reconnect /\ ~need_reconnect
           /\ attempts[Len(attempts)].out \in {"nfsstat3", "NFS3ERR_JUKEBOX"}

\* A RENAME call answered with NFS3ERR_NOENT and both wcc_data, everything
\* optional in them present, after a first reply that was cut short.
RenameFailDecodedOnRetry ==
    /\ RawCall /\ pc = "done" /\ res_class = "RENAME3res"
    /\ Len(attempts) = 2
    /\ result.status = nfsstat3(2)
    /\ result.body = <<1, 1, 1, 1>>

\* The absolute path with the components cs: "/" for none, else each
\* component behind a separator.
RECURSIVE AbsPath(_)
AbsPath(cs) ==
    IF cs = <<>> THEN <<>> ELSE <<sep>> \o Head(cs) \o AbsPath(Tail(cs))

CompNames == UNION {[1..n -> PathChars \ {sep}] : n \in 1..(MaxPathLen - 1)}
CompLists ==
    {cs \in UNION {[1..n -> CompNames] : n \in 0..(MaxPathLen \div 2)} :
        Len(AbsPath(cs)) <= MaxPathLen}

\* The LOOKUPs of the call so far: the RPCs behind the MOUNT.
Lookups == SubSeq(rp_rpcs, 2, Len(rp_rpcs))

HasEmptyComponent(p) ==
    /\ p # <<sep>>
    /\ \E i \in 1..Len(p) : p[i] = sep /\ (i = Len(p) \/ p[i + 1] = sep)

\* C17: resolve_path_from raises and returns no handle for an empty path, for
\* a relative path without a starting handle (before any RPC), for an absolute
\* path with a starting handle, and for a path with an empty component.
ResolveRejectsBadPaths ==
    (rp_pc # "idle"
     /\ (\/ rp_path = <<>>
         \/ rp_start = NoHandle /\ rp_path[1] # sep
         \/ rp_start # NoHandle /\ rp_path[1] = sep
         \/ HasEmptyComponent(rp_path)))
    => /\ rp_pc # "done"
       /\ rp_ret = NoHandle
       /\ rp_pc = "loop" => \E i \in 1..Len(rp_comps) : rp_comps[i] = <<>>
       /\ (\/ rp_path = <<>>
           \/ rp_start = NoHandle /\ rp_path[1] # sep
           \/ rp_start # NoHandle /\ rp_path[1] = sep)
             => (rp_pc = "raised" /\ rp_exc = "ValueError" /\ rp_rpcs = <<>>)

\* "/a/" is rejected when its empty last component is reached, after the
\* LOOKUP of "a" has succeeded.
TrailingSeparatorRejected ==
    /\ rp_pc = "raised" /\ rp_exc = "ValueError"
    /\ rp_start = NoHandle
    /\ rp_path = <<sep, "a", sep>>
    /\ Len(rp_rpcs) = 2 /\ rp_rpcs[2].status = NFS3_OK

\* C18: readdir_entire_dir and readdirplus_entire_dir both return (False, [])
\* as soon as a response has a status other than NFS3_OK: neither raises, and
\* the entries of earlier pages are not returned.
NonOkListingReturnsFalse ==
    (rd_pages # <<>> /\ rd_pages[Len(rd_pages)].status # NFS3_OK) =>
        /\ rd_pc = "returned"
        /\ rd_exc = ""
        /\ rd_ret = DirRet(FALSE, <<>>)

RECURSIVE PagesEntries(_)
PagesEntries(pages) ==
    IF pages = <<>> THEN <<>> ELSE Head(pages).entries \o PagesEntries(Tail(pages))

AllOk(pages) == \A i \in 1..Len(pages) : pages[i].status = NFS3_OK

\* C19: the first request has cookie 0 and an all-zero cookieverf; each later
\* request has the cookie of the last entry of the previous response and the
\* cookieverf of the previous response; for OK pages, with or without
\* entries, the listing goes on until the first page with eof and then returns
\* (True, all pages' entries in order).
ListingFollowsCookies ==
    /\ rd_reqs # <<>> => rd_reqs[1] = DirReq(0, Zeros(NFS3_COOKIEVERFSIZE))
    /\ \A i \in 2..Len(rd_reqs) :
          /\ rd_pages[i - 1].entries # <<>>
          /\ rd_reqs[i].cookie = rd_pages[i - 1].entries[Len(rd_pages[i - 1].entries)].cookie
          /\ rd_reqs[i].cookieverf = rd_pages[i - 1].cookieverf
    /\ \A i \in 1..(Len(rd_pages) - 1) : rd_pages[i].status = NFS3_OK /\ ~rd_pages[i].eof
    /\ (rd_pages # <<>> /\ AllOk(rd_pages)) =>
          IF rd_pages[Len(rd_pages)].eof
          THEN rd_pc = "returned" /\ rd_ret = DirRet(TRUE, PagesEntries(rd_pages))
          ELSE rd_pc = "loop"

\* C20: when REMOVE of the name reports NFS3ERR_ISDIR and the directory is
\* looked up and listed, remove_subtree calls itself (so sends a REMOVE in
\* the directory) for every entry other than '.', '..' and '.snapshot' and
\* for no other, then sends RMDIR for the directory and returns; it returns
\* True only if the RMDIR succeeded, and with no child to remove exactly then.
RemoveSubtreeWalksDirectory ==
    (/\ rm_pc \in {"done", "raised"}
     /\ Len(rm_rpcs) >= 3
     /\ rm_rpcs[1].status = NFS3ERR_ISDIR
     /\ rm_rpcs[3].proc = "READDIRPLUS"
     /\ rm_rpcs[3].status = NFS3_OK) =>
        LET es == rm_rpcs[3].entries
            remove_fh == rm_rpcs[3].dir
            final == rm_rpcs[Len(rm_rpcs)]
        IN /\ rm_pc = "done"
           /\ rm_rpcs[2].proc = "LOOKUP"
           /\ \A i \in 1..Len(es) :
                 ~name_skipped(es[i].name) =>
                     \E k \in 4..Len(rm_rpcs) :
                         /\ rm_rpcs[k].proc = "REMOVE"
                         /\ rm_rpcs[k].dir = remove_fh
                         /\ rm_rpcs[k].name.data = es[i].name.data
           /\ \A k \in 4..Len(rm_rpcs) :
                 (rm_rpcs[k].proc = "REMOVE" /\ rm_rpcs[k].dir = remove_fh) =>
                     ~name_skipped(rm_rpcs[k].name)
           /\ final.proc = "RMDIR"
           /\ final.dir = rm_rpcs[1].dir
           /\ final.name = rm_rpcs[1].name
           /\ rm_ret => final.status = NFS3_OK
           /\ (\A i \in 1..Len(es) : name_skipped(es[i].name)) =>
                 (rm_ret <=> final.status = NFS3_OK)

\* C21: lookup_create returns (True, h) only when the first LOOKUP is OK and
\* prevfh is None or equal to h, or when the first LOOKUP is NOENT, do_create
\* is set and MKDIR succeeds (h the handle MKDIR returned, else the handle of
\* a successful second LOOKUP); in every other case it returns (False, None);
\* MKDIR is sent only after a NOENT LOOKUP with do_create set.
LookupCreateResult ==
    /\ lc_pc = "done" =>
          LET found == /\ Len(lc_rpcs) = 1
                       /\ lc_rpcs[1].status = NFS3_OK
                       /\ lc_ret.handle = get_handle(lc_rpcs[1].obj.handle)
                       /\ (lc_prevfh = NoHandle \/ handle_eq(lc_prevfh, lc_ret.handle))
              created == /\ Len(lc_rpcs) >= 2
                         /\ lc_rpcs[1].status = NFS3ERR_NOENT
                         /\ lc_do_create
                         /\ lc_rpcs[2].proc = "MKDIR"
                         /\ lc_rpcs[2].status = NFS3_OK
                         /\ IF lc_rpcs[2].obj.handle_follows
                            THEN Len(lc_rpcs) = 2 /\ lc_ret.handle = lc_rpcs[2].obj.handle
                            ELSE /\ Len(lc_rpcs) = 3
                                 /\ lc_rpcs[3].proc = "LOOKUP"
                                 /\ lc_rpcs[3].status = NFS3_OK
                                 /\ lc_ret.handle = get_handle(lc_rpcs[3].obj.handle)
          IN IF lc_ret.ok THEN found \/ created
             ELSE lc_ret.handle = NoHandle /\ ~found /\ ~created
    /\ \A k \in 1..Len(lc_rpcs) :
          lc_rpcs[k].dir = lc_parentdirfh /\ lc_rpcs[k].name = lc_aname
    /\ \A k \in 1..Len(lc_rpcs) :
          lc_rpcs[k].proc = "MKDIR" =>
              k = 2 /\ lc_rpcs[1].proc = "LOOKUP" /\ lc_rpcs[1].status = NFS3ERR_NOENT /\ lc_do_create

\* A call with a previous handle found the same handle again.
SameHandleFoundAgain ==
    /\ lc_pc = "done"
    /\ lc_prevfh # NoHandle
    /\ lc_ret.ok
    /\ Len(lc_rpcs) = 1

\* Every COMMIT of a call but the last was answered "flush in progress" (the
\* first: or NFS3_OK), and so is the last while the call is still polling.
CommitsInOrder(w) ==
    \A i \in 1..Len(Commits(w)) :
        /\ Commits(w)[i].offset = MAGIC_OFFSET
        /\ Commits(w)[i].count = IF i = 1 THEN ASYNC_FLUSH_COUNT ELSE FLUSH_STATUS_COUNT
        /\ (i < Len(Commits(w)) \/ fl_pc[w] = "poll") =>
              \/ Commits(w)[i].status = nfsstat3(NFS3ERR_NOT_SYNC)
              \/ i = 1 /\ Commits(w)[i].status = nfsstat3(NFS3_OK)

\* How a finished call ended, by the answer to its last COMMIT.
CommitOutcome(w) ==
    fl_pc[w] = "done" =>
        \E answer \in {Commits(w)[Len(Commits(w))].status} :
            /\ fl_ret[w] = "commit_res" <=> Len(Commits(w)) > 1 /\ answer = nfsstat3(NFS3_OK)
            /\ fl_ret[w] = "async_error" <=>
                  Len(Commits(w)) = 1 /\ answer \notin {nfsstat3(NFS3_OK), nfsstat3(NFS3ERR_NOT_SYNC)}
            /\ fl_ret[w] = "notempty" <=> Len(Commits(w)) > 1 /\ answer = nfsstat3(NFS3ERR_NOTEMPTY)
            /\ fl_ret[w] = "other" <=>
                  /\ Len(Commits(w)) > 1
                  /\ answer \notin {nfsstat3(NFS3_OK), nfsstat3(NFS3ERR_NOT_SYNC),
                                  nfsstat3(NFS3ERR_NOTEMPTY)}
            /\ fl_ret[w] = "timeout" <=>
                  /\ answer = nfsstat3(NFS3ERR_NOT_SYNC) \/ (Len(Commits(w)) = 1 /\ answer = nfsstat3(NFS3_OK))
                  /\ fl_timeout[w] # 0
                  /\ fl_now[w] > fl_endtime[w]
            /\ fl_ret[w] # "None"

\* C22: commit_and_wait sends the async-flush COMMIT first and polls with the
\* status COMMIT only after NFS3_OK or NFS3ERR_NOT_SYNC; it polls again while
\* the answer is NFS3ERR_NOT_SYNC, returns the result at the first NFS3_OK and
\* nothing at NFS3ERR_NOTEMPTY, at another status or past the deadline; and
\* with a nonzero timeout a polling loop comes to its end.
CommitAndWaitProtocol ==
    /\ [](\A w \in Workers : CommitsInOrder(w) /\ CommitOutcome(w))
    /\ \A w \in Workers : (fl_pc[w] = "poll" /\ fl_timeout[w] # 0) ~> (fl_pc[w] = "done")

\* Witness for C22: a call that polled twice and got its result.
FlushedAfterPolling ==
    /\ fl_main = "idle"
    /\ fl_pc[1] = "done"
    /\ fl_ret[1] = "commit_res"
    /\ Len(Commits(1)) = 3
    /\ fl_timeout[1] # 0

\* C23: when the flusher exits and the flush of some path has failed (its
\* lookup, its async COMMIT, a poll answered NFS3ERR_NOTEMPTY or with another
\* status, or its timeout), error_count is not zero and neither is the exit
\* status.
FailedFlushExitsNonZero ==
    (/\ fl_main = "exited"
     /\ \E i \in 1..Len(fl_outcomes) : fl_outcomes[i][2] # "flushed")
        => error_count # 0 /\ fl_exit # 0

\* C24: _recvrecord returns the concatenation of the payloads of the
\* fragments the peer sent, however the connection cuts them into chunks; and
\* what _sendrecord sends is one fragment: the last-fragment bit, the length
\* of the payload, the payload.
RecordReassembled ==
    /\ fr_pc \in {"returned", "raised"} =>
          /\ fr_pc = "returned"
          /\ fr_recordbuf = payloads(fr_frags)
    /\ fr_sent # <<>> =>
          /\ fr_sent[1] >= 128
          /\ ((fr_sent[1] - 128) * 256 + fr_sent[2]) * 65536 + fr_sent[3] * 256 + fr_sent[4]
                = Len(fr_frags[1])
          /\ SubSeq(fr_sent, 5, Len(fr_sent)) = fr_frags[1]

\* C25: in the transport make_call, an attempt that follows an attempt whose
\* receive timed out on the socket is made with the same XID and without
\* reconnecting.
TimeoutRetriesOnSameConnection ==
    (/\ layer = "raw"
     /\ Len(attempts) >= 2
     /\ attempts[Len(attempts) - 1].out = "RPCTimeout"
     /\ attempts[Len(attempts) - 1].sent)
        => /\ last.xid = attempts[Len(attempts) - 1].xid
           /\ ~last.reconnected

\* C26: after an attempt of the transport make_call whose receive timed out
\* on the socket, need_reconnect is set if make_call allocated the XID and
\* unset if the caller passed it.
TimeoutReconnectOnlyForOwnXid ==
    (/\ layer = "raw"
     /\ pc \in {"raw", "done"}
     /\ last.status = StatusStr("RPCTimeout")
     /\ last.sent)
        => (need_reconnect <=> arg_xid = None)

\* An iteration of the retry loop of the transport make_call.
AttemptStep == pc = "raw" /\ tries' = tries + 1

\* C28: an attempt that starts with need_reconnect set or without a socket
\* reconnects before it sends, and no attempt uses a socket that is not there.
ReconnectsBeforeSending ==
    [][AttemptStep =>
          /\ (need_reconnect \/ sock = "None") /\ last'.sent => last'.reconnected
          /\ ~(sock = "None" /\ ~last'.reconnected /\ last'.status = StatusStr("AttributeError"))]_vars

\* The attempt ended with a connection reset, an end of file or a protocol
\* error.
WireFailed(rec) ==
    /\ ~rec.returned
    /\ rec.status \in {StatusStr("ConnectionResetError"), StatusStr("EOFError"),
                       StatusStr("ProtocolError"), StatusStr("ShortRead")}

\* C29: after an attempt that ended with a connection reset, an end of file or
\* a protocol error need_reconnect is set, and stays set until an attempt
\* reconnects, which it does before it sends; if that attempt was the last of
\* its make_call, make_call returns a result with the status "RPCFailed".
WireFailureReconnects ==
    /\ [](WireFailed(last) =>
            /\ need_reconnect
            /\ pc \in {"done", "raised"} /\ layer = "raw" =>
                  pc = "done" /\ result.status = StatusStr("RPCFailed"))
    /\ [][/\ need_reconnect /\ ~AttemptStep => need_reconnect'
          /\ need_reconnect /\ AttemptStep => last'.reconnected \/ ~last'.sent]_vars

\* C27: when a call sends, nothing of a reply to an earlier call is on the
\* connection or still to come on it, and no call reads a part of a reply to
\* another call.
RepliesConsumedBeforeNextCall ==
    /\ ~cn_stale
    /\ \A rd \in cn_reads : rd[1] = rd[2]

\* C30: a result of make_call that stands for a failure at the RPC level (a
\* timeout, a transport error, an accept-stat other than SUCCESS, a call
\* denied with RPC_MISMATCH or AUTH_ERROR) is true as a bool.
FailureResultIsTruthy ==
    (pc = "done" /\ IsResFail(result)) => ONCRPCres_bool(result)

\* A reply record that is a whole reply of the server cut short: a proper
\* prefix of one of the replies to the call with XID x.
CutShort(r, x) ==
    \E w \in Replies(x) : Len(r) < Len(w) /\ r = SubSeq(w, 1, Len(r))

\* C31: after an attempt that received a reply record cut short (in the RPC
\* header, in the verifier or the denial, or in the result body) no result is
\* returned by the attempt, need_reconnect is set, and make_call retries or
\* returns a failure result (it does not raise).
TruncatedReplyFails ==
    (last.got_reply /\ CutShort(reply_stream, last.xid)) =>
        /\ ~last.returned
        /\ need_reconnect
        /\ pc # "raised"
        /\ pc = "done" => IsResFail(result)

\* The attempt received a reply, with its three header words, that is not a
\* REPLY message or whose reply_stat is neither MSG_ACCEPTED nor MSG_DENIED.
UnexpectedReply ==
    /\ last.got_reply
    /\ Len(reply_stream) >= 3
    /\ \/ reply_stream[2] # REPLY
       \/ reply_stream[3] \notin {MSG_ACCEPTED, MSG_DENIED}

\* C32: a reply whose message type is not REPLY, or whose reply_stat is
\* neither MSG_ACCEPTED nor MSG_DENIED, makes the attempt return an
\* ONCRPCresfail with a string status, sets need_reconnect and decodes no
\* result body; make_call returns that failure without a further attempt.
UnexpectedReplyFailsAtOnce ==
    UnexpectedReply =>
        /\ last.returned
        /\ last.cls = "ONCRPCresfail"
        /\ last.status.type = "str"
        /\ last.status.text \in {"mtype is not REPLY", "wrong xid in reply",
                                 "unexpected status in reply"}
        /\ ~last.decoded
        /\ last.pos = 12
        /\ last.need_reconnect /\ need_reconnect
        /\ RawCall => /\ pc = "done"
                      /\ IsResFail(result)
                      /\ result.status = last.status

\* C32 witness: a make_call with tries left ended on its first attempt, which
\* received a CALL message carrying the XID of the call.
UnexpectedReplySeen ==
    /\ UnexpectedReply
    /\ reply_stream = <<last.xid, CALL, MSG_ACCEPTED>>
    /\ RawCall /\ pc = "done"
    /\ tries = 1 /\ callTries > 1

\* C33: every decoder of a variable-length field leaves the stream behind the
\* declared length and the 0 to 3 padding bytes that round it up to a
\* multiple of 4, discard_auth on the verifier and READ3res.read on the data
\* included.
VarFieldConsumesPadding ==
    fn = "field_read" =>
        /\ fn_out.kind = "return"
        /\ fn_out.pos = Len(FieldPrefix(fn_in[1])) + Len(vararray_write(fn_in[2]))

\* C34: the XID counter of the client's class is at least every XID seen on
\* the wire: the XID the last attempt sent and the XID of the reply it
\* received, matching or not, so that the next get_new_xid returns a larger
\* value.
XidCounterCoversWire ==
    /\ last.sent => ClassAttr(_lastxid, SelfClass) >= last.xid
    /\ (last.got_reply /\ Len(reply_stream) >= 1) =>
          /\ ClassAttr(_lastxid, SelfClass) >= reply_stream[1]
          /\ get_new_xid_value(_lastxid, SelfClass) > reply_stream[1]

\* C35: when _sendrecord has returned and the client turns to the reply, every
\* byte of the call record, header word and payload, has gone to the peer,
\* also when the socket took only a part of the buffer in its send.
WholeRecordSent ==
    (fr_sent # <<>> /\ fr_pc = "header") => fr_wire = fr_sent

\* The attribute that the discriminator of a union object selects, and the
\* other one.
SelectsArm2(self) ==
    IF self.type = "createhow3" THEN self.mode = createmode3_EXCLUSIVE
    ELSE self.mode \in {ftype3_NF3SOCK, ftype3_NF3FIFO}
Selected(self) == IF SelectsArm2(self) THEN self.arm2 ELSE self.arm1
NotSelected(self) == IF SelectsArm2(self) THEN self.arm1 ELSE self.arm2
HasArm(self) ==
    IF self.type = "createhow3"
    THEN self.mode \in createmode3_UNCHECKED..createmode3_EXCLUSIVE
    ELSE self.mode \in {ftype3_NF3CHR, ftype3_NF3BLK, ftype3_NF3SOCK, ftype3_NF3FIFO}

\* C36: a createhow3 or mknoddata3 object, after its construction and after
\* every assignment to mode, has the attribute its discriminator selects set
\* and the other one None, and write does not fail for lack of the selected
\* attribute.
UnionArmMatchesTag ==
    (fn \in {"union.__init__", "mode", "union.write"} /\ fn_self.exists) =>
        /\ HasArm(fn_self) => /\ Selected(fn_self) # NoneAttr
                              /\ NotSelected(fn_self) = NoneAttr
        /\ fn = "union.write" => ~(fn_out.kind = "raise" /\ fn_out.exc = "AttributeError")

\* A status that is a string, not convertible to an integer, or not zero.
BadStatus(status) == status.type \in {"str", "NoneType"} \/ status.val # 0

\* C37: after any sequence of operations recorded by the latency tracker its
\* success flag is False if one of the statuses was a string, not convertible
\* to an integer or non-zero, and a flag that is False stays False.
TrackerFlagSticky ==
    /\ []((\E i \in 1..Len(lt_recorded) : BadStatus(lt_recorded[i])) => ~lt_success)
    /\ [][~lt_success => ~lt_success']_vars

\* C37 witness: a zero status was recorded after a bad one and the flag is
\* False.
TrackerFailedThenOk ==
    /\ Len(lt_recorded) >= 2
    /\ BadStatus(lt_recorded[1])
    /\ lt_recorded[Len(lt_recorded)] = nfsstat3(NFS3_OK)
    /\ ~lt_success
    /\ lt_all.errors = 1 /\ lt_all.opcount_success = Len(lt_recorded) - 1

\* C38: resolve terminates, also when the lookups of ".." run in a cycle: an
\* iteration that does not end the resolution moves to a parent handle that
\* was not seen before and scans it, no parent is scanned twice, and success
\* is set only when the resolution ended at an export.
ResolveTerminates ==
    /\ (rs_pc \in {"loop", "scan"}) ~> (rs_pc \in {"done", "raised"})
    /\ [][(rs_pc = "loop" /\ rs_pc' = "scan") =>
             /\ rs_pfh' \notin rs_seen
             /\ rs_seen' = rs_seen \cup {rs_pfh'}
             /\ rs_scanned' = Append(rs_scanned, rs_pfh')]_vars
    /\ [][(rs_pc = "scan" /\ rs_pc' = "loop") => (rs_fh' = rs_pfh /\ rs_fh' # rs_fh)]_vars
    /\ [](\A i, j \in 1..Len(rs_scanned) : i # j => rs_scanned[i] # rs_scanned[j])
    /\ [](rs_success => (rs_pc = "done" /\ rs_fh = rs_exports.fh))
    /\ []((rs_pc \in {"done", "raised"} /\ rs_fh # rs_exports.fh) => ~rs_success)

\* C38 witness: the lookups of ".." came back to a handle seen before, after
\* a parent was scanned, and the resolution ended without success.
ResolveCycleSeen ==
    /\ rs_pc = "done"
    /\ ~rs_success
    /\ Len(rs_scanned) >= 1
    /\ rs_pfh \in rs_seen
    /\ rs_pfh # rs_fh
    /\ rs_pfh = rs_start

\* c1/.../cn, and the export directory E joined with it by one separator.
RECURSIVE JoinComps(_)
JoinComps(comps) ==
    IF Len(comps) = 1 THEN <<comps[1]>>
    ELSE <<comps[1], sep>> \o JoinComps(Tail(comps))
JoinPath(E, comps) ==
    IF E[Len(E)] = sep THEN E \o JoinComps(comps) ELSE E \o <<sep>> \o JoinComps(comps)

\* C39: when resolve succeeds for a handle reached from the export directory
\* E through the components c1..cn, n >= 1, the reported path is E joined with
\* c1/.../cn by single separators, the path that resolve_path walks back to
\* the handle.
ReportedPathJoins ==
    (rs_pc = "done" /\ rs_success /\ Len(rs_comps) >= 1) =>
        rs_path = JoinPath(rs_exports.ex_dir, rs_comps)

\* C40: with a timeout for each file, process_files_parallel comes to its
\* end once standard input is read: q.join() returns and the program exits,
\* whatever happens to a path or to a worker setting up its client.
PoolJoinReturns == (fl_main = "joining" /\ fl_args # 0) ~> (fl_main = "exited")

====
